---- MODULE Spec2Model ----
(***************************************************************************)
(* A model of levanter's TPU orchestration (src/levanter/infra/ray_tpu.py): *)
(* the generic ResourcePoolManager, the SliceActor workers it manages, the  *)
(* failure classifier _handle_ray_error and the retry loop run_on_pod_ray.  *)
(***************************************************************************)
EXTENDS Integers, Sequences, FiniteSets, TLC

(***************************************************************************)
(* Bounds of the model.                                                    *)
(***************************************************************************)
\* slice actors that can be created in one behaviour (actor ids 1..MaxActors)
MaxActors == 3
\* the largest num_slices a run (or a scale_actor_pool call) asks for
MaxSlices == 2
\* the largest host count a slice reports
MaxHosts == 2
\* the largest retry budget (budgets range over -1..MaxBudget)
MaxBudget == 1
\* attempts of the retry loop in one behaviour
MaxAttempts == 3
\* the most futures one attempt dispatches (num_slices * hosts per slice)
MaxFutures == 2
\* the longest result vector handed to the aggregation on its own
MaxResults == 3
MaxTasks == 3
MaxMaxCalls == 2

\* SliceActor._slice_info = None
NoInfo == -1

ActorIds == 1..MaxActors
Budgets == -1..MaxBudget
\* results a dispatched task can return
Values == {41, 42}

\* The condition of a SliceActor process as its callers see it:
\*   unborn       no actor with this id has been created
\*   ok           healthy() returns True
\*   preempted    get_current_tpu_is_preempted() holds: healthy() returns False
\*   dead         calls raise ActorDiedError, or run into GetTimeoutError
\*   unavailable  calls raise ActorUnavailableError
\*   killed       ray.kill was issued on the handle
LiveStatus == {"ok", "preempted", "dead", "unavailable"}
BadStatus == {"preempted", "dead", "unavailable"}

\* What get_slice_info of a newly created SliceActor does:
\*   ok        topology discovered, host pool scaled to num_hosts
\*   hostfail  topology discovered, the host pool could not be filled: raises
\*   infoerr   the topology query itself raises, _slice_info stays None
\*   dead      the actor died (or never started): ActorDiedError / timeout
StartOutcomes == {"ok", "hostfail", "infoerr", "dead"}

\* Errors ray.get of a finished task future can raise
RayErrors == {"NodeDiedError", "ActorUnavailableError", "ActorDiedError",
              "WorkerCrashedError", "RaySystemError", "RayTaskError",
              "RayTaskError_timeout", "RayError"}
TaskErrors == RayErrors \cup {"Exception"}

VARIABLES
    \* ---- the actors (shared with the environment)
    sliceSt,       \* [ActorIds -> status]
    slice_info,    \* SliceActor._slice_info: NoInfo or the reported num_hosts
    hostPool,      \* SliceActor._actor_pool: the slice's host actors
    nextId,        \* the id the next created SliceActor gets
    \* ---- SlicePoolManager
    actor_pool,    \* ResourcePoolManager._actor_pool of the slice pool manager
    \* ---- run_on_pod_ray: parameters
    num_slices, max_retries_preemption, max_retries_failure,
    hosts_per_slice,   \* the host count slices of this tpu_type report
    remote_fn,         \* the function to run: its type and its max_calls option
    \* ---- run_on_pod_ray: locals
    pc, attempt, num_preemptions, num_failures, problems, slice_pool,
    futures, tpu_results, pending_futures, had_a_failure, actor_healths,
    exit,          \* how control leaves the try block
    outcome,       \* what run_on_pod_ray returned or raised
    \* ---- observation of the run (not read by the program)
    fut,           \* what each future of the attempt resolved with
    hist,          \* how each finished attempt ended
    lastCall,      \* the last pool operation called and how it ended
    stale,         \* observation of the tasks left behind by earlier attempts:
                   \* whether they are followed, and the <<attempt, index>>
                   \* of the futures that were pending when their attempt ended
    \* ---- one TPUHostActor
    host_info,     \* TPUHostActor._host_info is set
    awaitable,     \* TPUHostActor._awaitable: 0 (None) or the handle of a task
    tasks,         \* the tasks the host actor launched, in launch order
    lockfile,      \* /tmp/libtpu_lockfile exists on the host
    hostCall       \* the last method called on the host actor (not read by it)

actorVars == <<sliceSt, slice_info, hostPool, nextId>>
paramVars == <<num_slices, max_retries_preemption, max_retries_failure, hosts_per_slice,
              remote_fn>>
hostVars == <<host_info, awaitable, tasks, lockfile, hostCall>>
attemptVars == <<futures, tpu_results, pending_futures, had_a_failure, actor_healths, fut>>
vars == <<sliceSt, slice_info, hostPool, nextId, actor_pool,
          num_slices, max_retries_preemption, max_retries_failure, hosts_per_slice,
          pc, attempt, num_preemptions, num_failures, problems, slice_pool,
          futures, tpu_results, pending_futures, had_a_failure, actor_healths,
          exit, outcome, fut, hist, lastCall,
          host_info, awaitable, tasks, lockfile, hostCall, remote_fn, stale>>

(***************************************************************************)
(* Helpers on sequences.                                                   *)
(***************************************************************************)
Range(s) == {s[i] : i \in 1..Len(s)}

RECURSIVE SeqOfSet(_)
SeqOfSet(S) == IF S = {} THEN <<>>
               ELSE LET m == CHOOSE x \in S : \A y \in S : x <= y
                    IN <<m>> \o SeqOfSet(S \ {m})

(***************************************************************************)
(* The actors.  W is the record [st, info, hosts] of the three actor       *)
(* variables; the pool operations are functions of it.                     *)
(***************************************************************************)
World == [st |-> sliceSt, info |-> slice_info, hosts |-> hostPool]

\* TPUHostActor of worker index k
HostActor(k) == [worker_index |-> k]
HostActors(n) == [k \in 1..n |-> HostActor(k - 1)]

\* member.actor.healthy.remote() of a pool member, as ray.get sees it in
\* _remove_unhealthy_members_from_actor_pool: TRUE only for a True answer;
\* a False answer and the caught errors (actor died, unavailable, timeout)
\* all make the member unhealthy.
MemberHealthy(W, m) == W.st[m.actor] = "ok"

\* A call on slice actor s is answered (healthy() of a preempted slice is).
Answers(W, s) == W.st[s] \in {"ok", "preempted"}

\* SliceActor.get_actor_pool_name: assert self._slice_info
PoolNameAsserts(W, s) == W.info[s] = NoInfo

\* drain_actor_pool of slice actor s, on its host pool: the f-string of its
\* first log line evaluates get_actor_pool_name before anything is stopped.
SliceDrainActorPool(W, s) ==
    IF PoolNameAsserts(W, s)
    THEN [w |-> W, raised |-> TRUE]
    ELSE [w |-> [W EXCEPT !.hosts[s] = <<>>], raised |-> FALSE]

\* drain_actor_pool of slice actor s when the _stop_actor of its k-th host
\* actor raises (k = 0: none does): the hosts before it are stopped, the
\* k-th is killed by the finally clause of _stop_actor, the loop ends there
\* and self._actor_pool = [] is not reached.
SliceDrainHosts(W, s, k) ==
    IF PoolNameAsserts(W, s)
    THEN [w |-> W, raised |-> TRUE, killed |-> {}]
    ELSE IF k = 0
    THEN [w |-> [W EXCEPT !.hosts[s] = <<>>], raised |-> FALSE,
          killed |-> {W.hosts[s][i].worker_index : i \in 1..Len(W.hosts[s])}]
    ELSE [w |-> W, raised |-> TRUE,
          killed |-> {W.hosts[s][i].worker_index : i \in 1..k}]

\* SliceActor.teardown with the same input
SliceTeardownHosts(W, s, k) ==
    LET r == SliceDrainHosts(W, s, k)
    IN IF r.raised THEN r
       ELSE [r EXCEPT !.w = [r.w EXCEPT !.info[s] = NoInfo]]

\* SliceActor.teardown: drain_actor_pool(), then self._slice_info = None
SliceTeardown(W, s) ==
    LET r == SliceDrainActorPool(W, s)
    IN IF r.raised THEN r
       ELSE [w |-> [r.w EXCEPT !.info[s] = NoInfo], raised |-> FALSE]

\* _stop_actor(actor) raises: ActorDiedError and GetTimeoutError are absorbed,
\* any other error of the teardown call (a task error from the teardown
\* itself, ActorUnavailableError) leaves through the finally clause.
StopRaises(W, s) ==
    \/ W.st[s] = "unavailable"
    \/ Answers(W, s) /\ SliceTeardown(W, s).raised

\* (mutant) ray.kill after the try statement instead of in its finally clause
StopActorKillAfterTry(W, s) ==
    LET T == IF Answers(W, s) THEN SliceTeardown(W, s).w ELSE W
    IN IF StopRaises(W, s) THEN T ELSE [T EXCEPT !.st[s] = "killed"]

\* _stop_actor(actor): teardown, __ray_terminate__, and ray.kill in finally.
StopActor(W, s) ==
    LET T == IF Answers(W, s) THEN SliceTeardown(W, s).w ELSE W
    IN [T EXCEPT !.st[s] = "killed"]

\* Stopping the actors of seq one after the other, as the for loops of
\* _remove_unhealthy_members_from_actor_pool and drain_actor_pool do: the
\* first _stop_actor that raises ends the loop.
RECURSIVE StopSeq(_, _)
StopSeq(W, seq) ==
    IF seq = <<>> THEN [w |-> W, raised |-> FALSE]
    ELSE IF StopRaises(W, Head(seq))
         THEN [w |-> StopActor(W, Head(seq)), raised |-> TRUE]
         ELSE StopSeq(StopActor(W, Head(seq)), Tail(seq))

ActorsOf(pool) == [i \in 1..Len(pool) |-> pool[i].actor]

(***************************************************************************)
(* ResourcePoolManager, as instantiated by SlicePoolManager.  Each         *)
(* operation returns [w, pool, next, raised]: the actors, _actor_pool and   *)
(* the next free actor id after the call, and whether the call raised.      *)
(***************************************************************************)
HealthyMembers(W, pool) == SelectSeq(pool, LAMBDA m : MemberHealthy(W, m))
UnhealthyMembers(W, pool) == SelectSeq(pool, LAMBDA m : ~MemberHealthy(W, m))

\* _remove_unhealthy_members_from_actor_pool: the unhealthy members are
\* stopped one by one; self._actor_pool = healthy_members is reached only if
\* no _stop_actor raised.
RemoveUnhealthyRebuild(W, pool) ==
    LET r == StopSeq(W, ActorsOf(pool))
    IN [w |-> r.w,
        pool |-> IF r.raised THEN pool ELSE <<>>,
        raised |-> r.raised]

RemoveUnhealthy(W, pool) ==
    LET r == StopSeq(W, ActorsOf(UnhealthyMembers(W, pool)))
    IN [w |-> r.w,
        pool |-> IF r.raised THEN pool ELSE HealthyMembers(W, pool),
        raised |-> r.raised]

\* ActorPoolMember(actor, actor_info) of a started slice actor
Member(W, s) == [actor |-> s,
                 actor_info |-> [num_hosts |-> W.info[s], ip_address |-> s]]

\* SliceActor.get_slice_info of the new actor s, with start outcome o, on a
\* pod of H hosts: _slice_info is set, then scale_actor_pool(num_hosts) fills
\* the host pool (hostfail: one host did not report, was dropped, and the
\* host pool's scaling raised).
GetSliceInfo(W, s, o, H) ==
    CASE o = "ok" ->
           [W EXCEPT !.st[s] = "ok", !.info[s] = H, !.hosts[s] = HostActors(H)]
      [] o = "hostfail" ->
           [W EXCEPT !.st[s] = "ok", !.info[s] = H, !.hosts[s] = HostActors(H - 1)]
      [] o = "infoerr" ->
           [W EXCEPT !.st[s] = "ok", !.info[s] = NoInfo, !.hosts[s] = <<>>]
      [] OTHER ->
           [W EXCEPT !.st[s] = "dead", !.info[s] = NoInfo, !.hosts[s] = <<>>]

\* create_actor and get_actor_info_future for every new actor: the calls are
\* issued for all of them before any result is read.
RECURSIVE CreateActors(_, _, _, _)
CreateActors(W, first, outs, H) ==
    IF outs = <<>> THEN W
    ELSE CreateActors(GetSliceInfo(W, first, Head(outs), H), first + 1, Tail(outs), H)

\* The for loop of _add_members_to_actor_pool over the new actors: one that
\* reported its info joins the pool, one that did not is stopped and skipped;
\* a _stop_actor that raises ends the loop and the call.
RECURSIVE AddLoop(_, _, _, _)
AddLoop(W, pool, first, outs) ==
    IF outs = <<>> THEN [w |-> W, pool |-> pool, raised |-> FALSE]
    ELSE IF Head(outs) = "ok"
         THEN AddLoop(W, Append(pool, Member(W, first)), first + 1, Tail(outs))
         ELSE IF StopRaises(W, first)
              THEN [w |-> StopActor(W, first), pool |-> pool, raised |-> TRUE]
              ELSE AddLoop(StopActor(W, first), pool, first + 1, Tail(outs))

\* (mutant) one actor too many: range(desired_num_actors - len + 1), and no
\* early return at len == desired_num_actors
NumToCreateOffByOne(pool, n) == IF Len(pool) > n THEN 0 ELSE n - Len(pool) + 1

\* How many actors _add_members_to_actor_pool creates
NumToCreate(pool, n) == IF Len(pool) >= n THEN 0 ELSE n - Len(pool)

\* (mutant) _add_members_to_actor_pool without its final length check
AddMembersUnchecked(W, pool, n, next, outs, H) ==
    IF NumToCreate(pool, n) = 0
    THEN [w |-> W, pool |-> pool, next |-> next, raised |-> FALSE]
    ELSE LET r == AddLoop(CreateActors(W, next, outs, H), pool, next, outs)
         IN [w |-> r.w, pool |-> r.pool, next |-> next + Len(outs),
             raised |-> r.raised]

\* _add_members_to_actor_pool(desired_num_actors): outs are the start
\* outcomes of the actors it creates, H the host count their pods report.
AddMembers(W, pool, n, next, outs, H) ==
    IF NumToCreate(pool, n) = 0
    THEN [w |-> W, pool |-> pool, next |-> next, raised |-> FALSE]
    ELSE LET r == AddLoop(CreateActors(W, next, outs, H), pool, next, outs)
         IN [w |-> r.w, pool |-> r.pool, next |-> next + Len(outs),
             raised |-> r.raised \/ Len(r.pool) < n]

\* scale_actor_pool(desired_num_actors)
ScaleActorPool(W, pool, n, next, outs, H) ==
    LET r == RemoveUnhealthy(W, pool)
    IN IF r.raised
       THEN [w |-> r.w, pool |-> r.pool, next |-> next, raised |-> TRUE]
       ELSE AddMembers(r.w, r.pool, n, next, outs, H)

\* The start outcomes scale_actor_pool may meet: one per actor it creates.
StartOutcomeSeqs(k, H) ==
    {o \in [1..k -> StartOutcomes] : \A i \in 1..k : o[i] = "hostfail" => H >= 1}

\* drain_actor_pool: every member is stopped in turn, then the pool is
\* emptied; a _stop_actor that raises leaves the pool as it was.
DrainActorPool(W, pool) ==
    LET r == StopSeq(W, ActorsOf(pool))
    IN [w |-> r.w, pool |-> IF r.raised THEN pool ELSE <<>>, raised |-> r.raised]

\* What lastCall records of a pool operation.
CallRecord(op, n, W, pool, next, r, next2) ==
    [op |-> op, n |-> n, target |-> 0, raised |-> r.raised,
     pre |-> pool, preSt |-> W.st,
     preHealthy |-> {pool[i].actor : i \in {j \in 1..Len(pool) : MemberHealthy(W, pool[j])}},
     created |-> next..(next2 - 1),
     stopped |-> {s \in ActorIds : r.w.st[s] = "killed" /\ W.st[s] # "killed"},
     repeat |-> /\ op = "scale"
                /\ lastCall.op = "scale" /\ lastCall.n = n
                /\ ~lastCall.raised /\ lastCall.quiet,
     quiet |-> TRUE]

NoCall == [op |-> "none", n |-> 0, target |-> 0, raised |-> FALSE, pre |-> <<>>,
           preSt |-> [s \in ActorIds |-> "unborn"], preHealthy |-> {},
           created |-> {}, stopped |-> {}, repeat |-> FALSE, quiet |-> FALSE]

(***************************************************************************)
(* Results of a dispatched task, and the failure classifier.               *)
(***************************************************************************)
NoResult == [kind |-> "None", result |-> 0, error |-> "None"]
TpuSuccess(v) == [kind |-> "TpuSuccess", result |-> v, error |-> "None"]
TpuPreempted(e) == [kind |-> "TpuPreempted", result |-> 0, error |-> e]
TpuFailed(e) == [kind |-> "TpuFailed", result |-> 0, error |-> e]
TpuRunError(e) == [kind |-> "TpuRunError", result |-> 0, error |-> e]
TpuCancelled == [kind |-> "TpuCancelled", result |-> 0,
                 error |-> "Task was cancelled due to a failure in another task"]

\* (mutant) a RayTaskError classified without asking for the preemption signal
HandleRayErrorNoSignal(e, sig) ==
    CASE e = "NodeDiedError" -> TpuPreempted(e)
      [] e \in {"ActorUnavailableError", "ActorDiedError"} -> TpuPreempted(e)
      [] e = "WorkerCrashedError" -> TpuPreempted(e)
      [] e = "RaySystemError" -> TpuRunError(e)
      [] e \in {"RayTaskError", "RayTaskError_timeout"} ->
           IF e = "RayTaskError_timeout" THEN TpuPreempted(e)
           ELSE TpuRunError(e)
      [] OTHER -> TpuRunError(e)

HandleRayErrorNoTimeout(e, sig) ==
    CASE e \in {"NodeDiedError", "ActorUnavailableError", "ActorDiedError",
                "WorkerCrashedError"} -> TpuPreempted(e)
      [] e \in {"RayTaskError", "RayTaskError_timeout"} ->
           IF sig THEN TpuPreempted(e) ELSE TpuRunError(e)
      [] OTHER -> TpuRunError(e)

\* _handle_ray_error(e); sig is get_current_tpu_is_preempted() at that moment,
\* RayTaskError_timeout a RayTaskError whose cause is a TimeoutError or whose
\* text holds "timed out".
HandleRayError(e, sig) ==
    CASE e = "NodeDiedError" -> TpuPreempted(e)
      [] e \in {"ActorUnavailableError", "ActorDiedError"} -> TpuPreempted(e)
      [] e = "WorkerCrashedError" -> TpuPreempted(e)
      [] e = "RaySystemError" -> TpuRunError(e)
      [] e \in {"RayTaskError", "RayTaskError_timeout"} ->
           IF sig THEN TpuPreempted(e)
           ELSE IF e = "RayTaskError_timeout" THEN TpuPreempted(e)
           ELSE TpuRunError(e)
      [] OTHER -> TpuRunError(e)

\* The try/except around ray.get(f) in the wait loop: what is recorded for a
\* future that finished with error e.
ResultOfErrorUnknownPreempted(e, sig) ==
    IF e \in RayErrors THEN HandleRayError(e, sig) ELSE TpuPreempted(e)

ResultOfError(e, sig) ==
    IF e \in RayErrors THEN HandleRayError(e, sig) ELSE TpuRunError(e)

\* problems after that future was processed: only a RayError is appended.
ProblemsAfterError(probs, e) ==
    IF e \in RayErrors THEN Append(probs, e) ELSE probs

(***************************************************************************)
(* Multislice coordination.                                                *)
(***************************************************************************)
MegascalePort == 8081

\* _multislice_info_from_head
MultisliceInfoFromHead(head, slice_id, n) ==
    [coordinator_ip |-> head.ip_address, slice_id |-> slice_id,
     num_slices |-> n, port |-> MegascalePort]

\* _multislice_info_to_env_vars
MultisliceInfoToEnvVars(ms) ==
    [MEGASCALE_COORDINATOR_ADDRESS |-> <<ms.coordinator_ip, ms.port>>,
     MEGASCALE_NUM_SLICES |-> ms.num_slices,
     MEGASCALE_PORT |-> ms.port,
     MEGASCALE_SLICE_ID |-> ms.slice_id]

\* mxla_env = {}
EmptyEnv == <<>>

\* (mutant) slice ordinals counted from 1
MxlaEnvOneBased(pool, i) ==
    IF Len(pool) > 1
    THEN MultisliceInfoToEnvVars(
             MultisliceInfoFromHead(pool[1].actor_info, i, Len(pool)))
    ELSE EmptyEnv

\* The environment run_on_pod_ray hands to the i-th slice of pool (i from 1).
MxlaEnv(pool, i) ==
    IF Len(pool) > 1
    THEN MultisliceInfoToEnvVars(
             MultisliceInfoFromHead(pool[1].actor_info, i - 1, Len(pool)))
    ELSE EmptyEnv

(***************************************************************************)
(* Dispatch.                                                               *)
(***************************************************************************)
\* SliceActor.run_remote_fn raises, or the call to it does: the actor does
\* not answer, has no topology, or has too few host actors.
InsufficientHostActorsNoCount(W, s) ==
    W.info[s] = NoInfo

\* SliceActor.run_remote_fn: not self._slice_info
\*                           or len(actors) < self._slice_info.num_hosts
InsufficientHostActors(W, s) ==
    \/ W.info[s] = NoInfo
    \/ Len(W.hosts[s]) < W.info[s]

DispatchRaises(W, s) ==
    \/ ~Answers(W, s)
    \/ InsufficientHostActors(W, s)

\* The futures one slice returns: one per host actor, in pool order.
FuturesForSlice(W, pool, i) ==
    [k \in 1..Len(W.hosts[pool[i].actor]) |->
        [slice |-> pool[i].actor,
         host |-> W.hosts[pool[i].actor][k].worker_index,
         env |-> MxlaEnv(pool, i)]]

\* futures.extend(futures_for_slice) over the slices 1..i of the pool
FuturesUpToLastOnly(W, pool, i) ==
    IF i = 0 THEN <<>> ELSE FuturesForSlice(W, pool, i)

RECURSIVE FuturesUpTo(_, _, _)
FuturesUpTo(W, pool, i) ==
    IF i = 0 THEN <<>>
    ELSE FuturesUpTo(W, pool, i - 1) \o FuturesForSlice(W, pool, i)

\* healthy() of slice actor s as ray.get(actor_health_futures) delivers it
HealthAnswer(W, s) ==
    CASE W.st[s] = "ok" -> "True"
      [] W.st[s] = "preempted" -> "False"
      [] OTHER -> "RayError"

\* actor_health_futures = [tpu_slice.actor.healthy.remote() for actor in slice_pool]:
\* tpu_slice is the variable the dispatch loop left behind, the last slice.
HealthPolledSlice(pool, i) == pool[Len(pool)].actor

(***************************************************************************)
(* Aggregation of an attempt's results.                                    *)
(***************************************************************************)
KindsOf(res) == {res[i].kind : i \in 1..Len(res)}

AnyPreempted(res) == KindsOf(res) \cap {"TpuPreempted", "TpuFailed"} # {}
AnyFailed(res) == "TpuRunError" \in KindsOf(res)
AnyCancelled(res) == "TpuCancelled" \in KindsOf(res)
AnyNone(res) == "None" \in KindsOf(res)

\* out_results: the results of the TpuSuccess entries, in index order
OutResults(res) ==
    LET ok == SelectSeq(res, LAMBDA r : r.kind = "TpuSuccess")
    IN [i \in 1..Len(ok) |-> ok[i].result]

\* problems after the loop over tpu_results: the error of every preempted,
\* failed or run-error entry is appended, in index order.
ProblemsAfterResults(probs, res) ==
    LET bad == SelectSeq(res, LAMBDA r : r.kind \in {"TpuPreempted", "TpuFailed", "TpuRunError"})
    IN probs \o [i \in 1..Len(bad) |-> bad[i].error]

\* (mutant) any_failed tested before any_preempted
AttemptVerdictFailureFirst(res) ==
    IF AnyFailed(res) THEN "failed"
    ELSE IF AnyPreempted(res) THEN "preempted"
    ELSE IF AnyCancelled(res) THEN "cancelled"
    ELSE "success"

\* The branch the if/elif chain after the loop takes.
AttemptVerdict(res) ==
    IF AnyPreempted(res) THEN "preempted"
    ELSE IF AnyFailed(res) THEN "failed"
    ELSE IF AnyCancelled(res) THEN "cancelled"
    ELSE "success"

\* (mutant) the failure budget compared with <
LoopConditionStrictPreemption(nf, np, maxf, maxp) == nf <= maxf /\ np < maxp

LoopConditionStrictFailure(nf, np, maxf, maxp) == nf < maxf /\ np <= maxp

\* The loop condition of run_on_pod_ray
LoopCondition(nf, np, maxf, maxp) == nf <= maxf /\ np <= maxp

(***************************************************************************)
(* How run_on_pod_ray ends.                                                *)
(***************************************************************************)
NoExit == [kind |-> "none", value |-> <<>>, exc |-> "None"]
Running == [kind |-> "running", branch |-> "none", exc |-> "None",
            cause |-> "None", value |-> <<>>]
Returned(v) == [kind |-> "returned", branch |-> "return", exc |-> "None",
                cause |-> "None", value |-> v]
Raised(branch, exc, cause) == [kind |-> "raised", branch |-> branch, exc |-> exc,
                               cause |-> cause, value |-> <<>>]

\* problem = problems[0] if problems else None
FirstProblem(probs) == IF probs # <<>> THEN probs[1] ELSE "None"

\* The raise statements after the try block.
ExhaustionRaiseSynthetic(np, nf, maxp, maxf, probs) ==
    IF np > maxp
    THEN Raised("preempted", "TPU job was preempted too many times", "None")
    ELSE IF nf >= maxf
    THEN Raised("failed", "TPU job failed too many times", "None")
    ELSE Raised("unknown", "Unknown error occurred during TPU job", "None")

ExhaustionRaise(np, nf, maxp, maxf, probs) ==
    LET problem == FirstProblem(probs)
    IN IF np > maxp
       THEN Raised("preempted", "TPU job was preempted too many times", problem)
       ELSE IF nf >= maxf
       THEN Raised("failed",
                   IF problem # "None" THEN problem ELSE "TPU job failed too many times",
                   "None")
       ELSE Raised("unknown", "Unknown error occurred during TPU job", problem)

(***************************************************************************)
(* The initial state: run_on_pod_ray has built its SlicePoolManager.       *)
(***************************************************************************)
\* remote_fn._default_options.get("max_calls") is None
NoMaxCalls == -1

\* A RemoteFunction with max_calls = m, a plain callable, a FunctionNode
\* (the result of .bind()).
RemoteFunction(m) == [type |-> "RemoteFunction", max_calls |-> m]
PlainCallable == [type |-> "Callable", max_calls |-> NoMaxCalls]
FunctionNode == [type |-> "FunctionNode", max_calls |-> NoMaxCalls]

\* ray.remote(max_calls=1)(remote_fn)
WrappedFn == RemoteFunction(1)

\* The futures left pending by earlier attempts, followed or not.
NotFollowed == [followed |-> FALSE, futs |-> {}, duringWait |-> FALSE]
Followed == [followed |-> TRUE, futs |-> {}, duringWait |-> FALSE]

\* TPUHostActor.__init__
NoHostCall == [op |-> "none", raised |-> FALSE, log |-> <<>>,
               preInfo |-> FALSE, preAwaitable |-> 0]
HostFresh ==
    /\ host_info = FALSE
    /\ awaitable = 0
    /\ tasks = <<>>
    /\ lockfile = FALSE
    /\ hostCall = NoHostCall

Init ==
    /\ sliceSt = [s \in ActorIds |-> "unborn"]
    /\ slice_info = [s \in ActorIds |-> NoInfo]
    /\ hostPool = [s \in ActorIds |-> <<>>]
    /\ nextId = 1
    /\ actor_pool = <<>>
    /\ num_slices \in 1..MaxSlices
    /\ max_retries_preemption \in Budgets
    /\ max_retries_failure \in Budgets
    /\ hosts_per_slice \in 0..MaxHosts
    /\ num_slices * hosts_per_slice <= MaxFutures
    /\ pc = "loop"
    /\ attempt = 0
    /\ num_preemptions = 0
    /\ num_failures = 0
    /\ problems = <<>>
    /\ slice_pool = <<>>
    /\ futures = <<>>
    /\ tpu_results = <<>>
    /\ pending_futures = {}
    /\ had_a_failure = FALSE
    /\ actor_healths = <<>>
    /\ exit = NoExit
    /\ outcome = Running
    /\ fut = <<>>
    /\ hist = <<>>
    /\ lastCall = NoCall
    /\ HostFresh
    /\ stale = NotFollowed
    /\ remote_fn = WrappedFn

SetWorld(W) ==
    /\ sliceSt' = W.st
    /\ slice_info' = W.info
    /\ hostPool' = W.hosts

\* How many actors scale_actor_pool(n) creates from this pool
ScaleCreates(W, pool, n) ==
    LET r == RemoveUnhealthy(W, pool)
    IN IF r.raised THEN 0 ELSE NumToCreate(r.pool, n)

(***************************************************************************)
(* run_on_pod_ray.                                                         *)
(***************************************************************************)
\* (mutant) an exception of scale_actor_pool retried without being counted
BeginAttemptScaleErrorUncounted ==
    /\ pc = "loop"
    /\ LoopCondition(num_failures, num_preemptions,
                     max_retries_failure, max_retries_preemption)
    /\ attempt < MaxAttempts
    /\ LET k == ScaleCreates(World, actor_pool, num_slices)
       IN /\ nextId + k - 1 <= MaxActors
          /\ \E outs \in StartOutcomeSeqs(k, hosts_per_slice) :
               LET r == ScaleActorPool(World, actor_pool, num_slices, nextId,
                                       outs, hosts_per_slice)
               IN /\ SetWorld(r.w)
                  /\ actor_pool' = r.pool
                  /\ nextId' = r.next
                  /\ lastCall' = CallRecord("scale", num_slices, World, actor_pool,
                                            nextId, r, r.next)
                  /\ attempt' = attempt + 1
                  /\ IF r.raised
                     THEN /\ problems' = <<"ScaleError">>
                          /\ num_preemptions' = num_preemptions
                          /\ hist' = Append(hist, "scalefail")
                          /\ pc' = "loop"
                          /\ UNCHANGED slice_pool
                     ELSE /\ problems' = <<>>
                          /\ slice_pool' = r.pool
                          /\ pc' = "dispatch"
                          /\ UNCHANGED <<num_preemptions, hist>>
    /\ UNCHANGED <<paramVars, hostVars, stale, num_failures, attemptVars, exit, outcome>>

\* The head of an attempt: attempt += 1, problems.clear(), and
\* scale_actor_pool(num_slices); an exception of it counts as a preemption.
BeginAttempt ==
    /\ pc = "loop"
    /\ LoopCondition(num_failures, num_preemptions,
                     max_retries_failure, max_retries_preemption)
    /\ attempt < MaxAttempts
    /\ LET k == ScaleCreates(World, actor_pool, num_slices)
       IN /\ nextId + k - 1 <= MaxActors
          /\ \E outs \in StartOutcomeSeqs(k, hosts_per_slice) :
               LET r == ScaleActorPool(World, actor_pool, num_slices, nextId,
                                       outs, hosts_per_slice)
               IN /\ SetWorld(r.w)
                  /\ actor_pool' = r.pool
                  /\ nextId' = r.next
                  /\ lastCall' = CallRecord("scale", num_slices, World, actor_pool,
                                            nextId, r, r.next)
                  /\ attempt' = attempt + 1
                  /\ IF r.raised
                     THEN /\ problems' = <<"ScaleError">>
                          /\ num_preemptions' = num_preemptions + 1
                          /\ hist' = Append(hist, "scalefail")
                          /\ pc' = "loop"
                          /\ UNCHANGED slice_pool
                     ELSE /\ problems' = <<>>
                          /\ slice_pool' = r.pool
                          /\ pc' = "dispatch"
                          /\ UNCHANGED <<num_preemptions, hist>>
    /\ UNCHANGED <<paramVars, hostVars, stale, num_failures, attemptVars, exit, outcome>>

\* The loop condition fails: control falls out of the while loop.
LoopExit ==
    /\ pc = "loop"
    /\ ~LoopCondition(num_failures, num_preemptions,
                      max_retries_failure, max_retries_preemption)
    /\ exit' = [kind |-> "exhausted", value |-> <<>>, exc |-> "None"]
    /\ pc' = "finally"
    /\ UNCHANGED <<actorVars, actor_pool, paramVars, hostVars, stale, attempt, num_preemptions,
                   num_failures, problems, slice_pool, attemptVars, outcome,
                   hist, lastCall>>

\* What fut records of a future: what it resolved with (classified as
\* _handle_ray_error classifies it), and as which of the attempt's futures.
Unresolved == [kind |-> "None", result |-> 0, error |-> "None", nth |-> 0,
               sig |-> "unread", cancel |-> FALSE]
Resolved(r, n) == [kind |-> r.kind, result |-> r.result, error |-> r.error, nth |-> n,
                   sig |-> "unread", cancel |-> FALSE]
\* What get_current_tpu_is_preempted() answered if the classifier asked: it
\* asks only for a RayTaskError.
SignalRead(e, sig) ==
    IF e \in {"RayTaskError", "RayTaskError_timeout"}
    THEN IF sig THEN "true" ELSE "false"
    ELSE "unread"
NextRank == Len(futures) - Cardinality(pending_futures) + 1

\* The dispatch loop over slice_pool, tpu_results = [None] * len(futures),
\* pending_futures = list(futures) and the health futures.  A slice whose
\* run_remote_fn raises ends the run through the outer except clause.
Dispatch ==
    /\ pc = "dispatch"
    /\ IF \E i \in 1..Len(slice_pool) : DispatchRaises(World, slice_pool[i].actor)
       THEN /\ exit' = [kind |-> "exception", value |-> <<>>, exc |-> "DispatchError"]
            /\ pc' = "finally"
            /\ UNCHANGED attemptVars
       ELSE LET fs == FuturesUpTo(World, slice_pool, Len(slice_pool))
            IN /\ futures' = fs
               /\ tpu_results' = [i \in 1..Len(fs) |-> NoResult]
               /\ fut' = [i \in 1..Len(fs) |-> Unresolved]
               /\ pending_futures' = 1..Len(fs)
               /\ had_a_failure' = FALSE
               /\ actor_healths' = [i \in 1..Len(slice_pool) |-> "pending"]
               /\ pc' = IF Len(fs) = 0 THEN "cancel" ELSE "wait"
               /\ UNCHANGED exit
    /\ UNCHANGED <<actorVars, actor_pool, paramVars, hostVars, stale, attempt, num_preemptions,
                   num_failures, problems, slice_pool, outcome, hist, lastCall>>

\* ray.get(actor_health_futures): the answers, once the calls have run.
ResolvedHealths ==
    IF \E i \in 1..Len(actor_healths) : actor_healths[i] = "pending"
    THEN [i \in 1..Len(actor_healths) |->
            HealthAnswer(World, HealthPolledSlice(slice_pool, i))]
    ELSE actor_healths

\* (mutant) "if healthy:" for "if not healthy:"
HealthCheckInverted(hs) == \E i \in 1..Len(hs) : hs[i] # "False"

\* The health check that ends an iteration of the wait loop.
HealthCheckFails(hs) == \E i \in 1..Len(hs) : hs[i] # "True"

\* (mutant) results recorded in the order the futures finish
FutureToIndexByCompletion(f) == NextRank

\* The index under which the result of future f is recorded: future_to_index[f]
FutureToIndex(f) == f

\* One iteration of the wait loop in which ray.wait timed out.
WaitTimeout ==
    /\ pc = "wait"
    /\ actor_healths' = ResolvedHealths
    /\ had_a_failure' = HealthCheckFails(ResolvedHealths)
    /\ pc' = IF had_a_failure' THEN "cancel" ELSE "wait"
    /\ UNCHANGED <<actorVars, actor_pool, paramVars, hostVars, stale, attempt, num_preemptions,
                   num_failures, problems, slice_pool, futures, tpu_results,
                   pending_futures, fut, exit, outcome, hist, lastCall>>

\* One iteration in which ray.wait returned future f, which holds value v.
WaitSuccess(f, v) ==
    /\ pc = "wait"
    /\ f \in pending_futures
    /\ fut' = [fut EXCEPT ![f] = Resolved(TpuSuccess(v), NextRank)]
    /\ tpu_results' = [tpu_results EXCEPT ![FutureToIndex(f)] = TpuSuccess(v)]
    /\ pending_futures' = pending_futures \ {f}
    /\ actor_healths' = ResolvedHealths
    /\ had_a_failure' = HealthCheckFails(ResolvedHealths)
    /\ pc' = IF pending_futures' # {} /\ ~had_a_failure' THEN "wait" ELSE "cancel"
    /\ UNCHANGED <<actorVars, actor_pool, paramVars, hostVars, stale, attempt, num_preemptions,
                   num_failures, problems, slice_pool, futures, exit, outcome,
                   hist, lastCall>>

\* (mutant) the wait loop goes on after a failed future while futures are pending
WaitErrorKeepsWaiting(f, e, sig) ==
    /\ pc = "wait"
    /\ f \in pending_futures
    /\ fut' = [fut EXCEPT ![f] = [Resolved(ResultOfError(e, sig), NextRank)
                                   EXCEPT !.sig = SignalRead(e, sig)]]
    /\ tpu_results' = [tpu_results EXCEPT ![FutureToIndex(f)] = ResultOfError(e, sig)]
    /\ problems' = ProblemsAfterError(problems, e)
    /\ pending_futures' = pending_futures \ {f}
    /\ had_a_failure' = TRUE
    /\ pc' = IF pending_futures' # {} THEN "wait" ELSE "cancel"
    /\ UNCHANGED <<actorVars, actor_pool, paramVars, hostVars, stale, attempt, num_preemptions,
                   num_failures, slice_pool, futures, actor_healths, exit, outcome,
                   hist, lastCall>>

\* One iteration in which ray.wait returned future f, and ray.get(f) raises e.
WaitError(f, e, sig) ==
    /\ pc = "wait"
    /\ f \in pending_futures
    /\ fut' = [fut EXCEPT ![f] = [Resolved(ResultOfError(e, sig), NextRank)
                                   EXCEPT !.sig = SignalRead(e, sig)]]
    /\ tpu_results' = [tpu_results EXCEPT ![FutureToIndex(f)] = ResultOfError(e, sig)]
    /\ problems' = ProblemsAfterError(problems, e)
    /\ pending_futures' = pending_futures \ {f}
    /\ had_a_failure' = TRUE
    /\ pc' = "cancel"
    /\ UNCHANGED <<actorVars, actor_pool, paramVars, hostVars, stale, attempt, num_preemptions,
                   num_failures, slice_pool, futures, actor_healths, exit, outcome,
                   hist, lastCall>>

\* (mutant) the pending futures are cancelled but not recorded
FillCancelledSkipped(res, pend, failed) == res

\* The results after "Proactively cancel jobs if one fails": every pending
\* future is cancelled and recorded as TpuCancelled.
FillCancelled(res, pend, failed) ==
    IF failed /\ pend # {}
    THEN [i \in 1..Len(res) |-> IF i \in pend THEN TpuCancelled ELSE res[i]]
    ELSE res

\* The futures ray.cancel(f, force=True) was called on: the loop runs over
\* pending_futures in order inside one try block, so the k-th call raising
\* (k = 0: none raises) ends it there.
CancelIssued(pend, failed, k) ==
    IF ~(failed /\ pend # {}) THEN {}
    ELSE IF k = 0 THEN pend
    ELSE {SeqOfSet(pend)[i] : i \in 1..k}

\* "Proactively cancel jobs if one fails", the k-th ray.cancel raising.
CancelPending(k) ==
    /\ pc = "cancel"
    /\ k <= (IF had_a_failure THEN Cardinality(pending_futures) ELSE 0)
    /\ fut' = [i \in 1..Len(fut) |->
                 IF i \in CancelIssued(pending_futures, had_a_failure, k)
                 THEN [fut[i] EXCEPT !.cancel = TRUE] ELSE fut[i]]
    /\ tpu_results' = FillCancelled(tpu_results, pending_futures, had_a_failure)
    /\ pc' = "aggregate"
    /\ UNCHANGED <<actorVars, actor_pool, paramVars, hostVars, stale, attempt, num_preemptions,
                   num_failures, problems, slice_pool, futures, pending_futures,
                   had_a_failure, actor_healths, exit, outcome, hist, lastCall>>

\* "continue": the locals of the attempt are dead from here on, each is
\* assigned again by the next attempt before it is read.
ForgetAttempt ==
    /\ futures' = <<>>
    /\ tpu_results' = <<>>
    /\ pending_futures' = {}
    /\ had_a_failure' = FALSE
    /\ actor_healths' = <<>>
    /\ fut' = <<>>

\* The loop over tpu_results and the if/elif chain that follows it.
\* The futures of an attempt that ends while they are pending: cancelled
\* or not, their tasks may go on and resolve later.
LeftPending(a, pend) == {<<a, i>> : i \in pend}

\* (mutant) ray.wait returning any future that is ready
RayWaitAnyReady(a, pend, f) == TRUE

\* ray.wait(pending_futures, num_returns=1, timeout=10.0) can return future
\* f: only members of the list it is given, which holds the futures of the
\* current attempt that have not resolved yet.
RayWait(a, pend, f) == f \in {<<a, i>> : i \in pend}

\* The task of a future of an earlier attempt ends with value v.
StaleResolves(f, v) ==
    /\ f \in stale.futs
    /\ pc \in {"loop", "dispatch", "wait", "cancel", "aggregate", "finally"}
    /\ stale' = [stale EXCEPT !.futs = @ \ {f},
                              !.duringWait = @ \/ pc = "wait"]
    /\ IF pc = "wait" /\ RayWait(attempt, pending_futures, f)
          /\ f[2] \in 1..Len(tpu_results)
       THEN /\ tpu_results' = [tpu_results EXCEPT ![f[2]] = TpuSuccess(v)]
            /\ pending_futures' = pending_futures \ {f[2]}
       ELSE UNCHANGED <<tpu_results, pending_futures>>
    /\ UNCHANGED <<actorVars, actor_pool, paramVars, hostVars, attempt, num_preemptions,
                   num_failures, problems, slice_pool, futures, had_a_failure,
                   actor_healths, fut, exit, outcome, hist, lastCall, pc>>

Aggregate ==
    /\ pc = "aggregate"
    /\ IF AnyNone(tpu_results)
       THEN /\ exit' = [kind |-> "exception", value |-> <<>>, exc |-> "AssertionError"]
            /\ pc' = "finally"
            /\ UNCHANGED <<num_preemptions, num_failures, problems, hist, attemptVars,
                           stale>>
       ELSE LET verdict == AttemptVerdict(tpu_results)
            IN /\ problems' = ProblemsAfterResults(problems, tpu_results)
               /\ stale' = IF stale.followed
                           THEN [stale EXCEPT !.futs =
                                    @ \cup LeftPending(attempt, pending_futures)]
                           ELSE stale
               /\ hist' = Append(hist, verdict)
               /\ num_preemptions' = IF verdict = "preempted"
                                     THEN num_preemptions + 1 ELSE num_preemptions
               /\ num_failures' = IF verdict = "failed"
                                  THEN num_failures + 1 ELSE num_failures
               /\ IF verdict = "success"
                  THEN /\ exit' = [kind |-> "return", value |-> OutResults(tpu_results),
                                   exc |-> "None"]
                       /\ pc' = "finally"
                       /\ UNCHANGED attemptVars
                  ELSE /\ pc' = "loop"
                       /\ ForgetAttempt
                       /\ UNCHANGED exit
    /\ UNCHANGED <<actorVars, actor_pool, paramVars, hostVars, attempt, slice_pool,
                   outcome, lastCall>>

\* What leaves run_on_pod_ray once the finally clause has run.
FinalOutcome(ex, drainRaised, np, nf, maxp, maxf, probs) ==
    IF drainRaised THEN Raised("finally", "StopError", ex.exc)
    ELSE CASE ex.kind = "return" -> Returned(ex.value)
           [] ex.kind = "exception" -> Raised("except", ex.exc, "None")
           [] OTHER -> ExhaustionRaise(np, nf, maxp, maxf, probs)

\* finally: slice_pool_manager.drain_actor_pool(), then the return or raise.
Finally ==
    /\ pc = "finally"
    /\ LET r == DrainActorPool(World, actor_pool)
       IN /\ SetWorld(r.w)
          /\ actor_pool' = r.pool
          /\ lastCall' = CallRecord("drain", 0, World, actor_pool, nextId, r, nextId)
          /\ outcome' = FinalOutcome(exit, r.raised, num_preemptions, num_failures,
                                     max_retries_preemption, max_retries_failure,
                                     problems)
    /\ pc' = "done"
    /\ UNCHANGED <<nextId, paramVars, hostVars, stale, attempt, num_preemptions, num_failures,
                   problems, slice_pool, attemptVars, exit, hist>>

(***************************************************************************)
(* The environment: a slice actor of the pool stops being healthy (its TPU *)
(* is preempted, its node dies, it stops answering), and one that stopped  *)
(* answering dies.                                                         *)
(***************************************************************************)
HealthChange(s, st) ==
    /\ pc \in {"dispatch", "wait"}
    /\ s \in Range(ActorsOf(actor_pool))
    /\ sliceSt[s] = "ok"
    /\ sliceSt' = [sliceSt EXCEPT ![s] = st]
    /\ lastCall' = [lastCall EXCEPT !.quiet = FALSE]
    /\ UNCHANGED <<slice_info, hostPool, nextId, actor_pool, paramVars, hostVars, stale, pc, attempt,
                   num_preemptions, num_failures, problems, slice_pool,
                   attemptVars, exit, outcome, hist>>

Next ==
    \/ BeginAttempt
    \/ LoopExit
    \/ Dispatch
    \/ WaitTimeout
    \/ \E f \in 1..MaxFutures, v \in Values : WaitSuccess(f, v)
    \/ \E f \in 1..MaxFutures, e \in TaskErrors, sig \in BOOLEAN :
          WaitError(f, e, sig)
    \/ \E k \in 0..MaxFutures : CancelPending(k)
    \/ Aggregate
    \/ Finally
    \/ \E s \in ActorIds, st \in BadStatus : HealthChange(s, st)

Spec == Init /\ [][Next]_vars

(***************************************************************************)
(* The same run, with the tasks of earlier attempts ending while later     *)
(* attempts are under way.                                                 *)
(***************************************************************************)
StaleInit ==
    /\ sliceSt = [s \in ActorIds |-> "unborn"]
    /\ slice_info = [s \in ActorIds |-> NoInfo]
    /\ hostPool = [s \in ActorIds |-> <<>>]
    /\ nextId = 1
    /\ actor_pool = <<>>
    /\ num_slices \in 1..MaxSlices
    /\ max_retries_preemption = 0
    /\ max_retries_failure = 0
    /\ hosts_per_slice \in 1..MaxHosts
    /\ num_slices * hosts_per_slice <= MaxFutures
    /\ pc = "loop"
    /\ attempt = 0
    /\ num_preemptions = 0
    /\ num_failures = 0
    /\ problems = <<>>
    /\ slice_pool = <<>>
    /\ futures = <<>>
    /\ tpu_results = <<>>
    /\ pending_futures = {}
    /\ had_a_failure = FALSE
    /\ actor_healths = <<>>
    /\ exit = NoExit
    /\ outcome = Running
    /\ fut = <<>>
    /\ hist = <<>>
    /\ lastCall = NoCall
    /\ host_info = FALSE
    /\ awaitable = 0
    /\ tasks = <<>>
    /\ lockfile = FALSE
    /\ hostCall = NoHostCall
    /\ remote_fn = WrappedFn
    /\ stale = Followed

StaleNext ==
    \/ Next
    \/ \E a \in 1..MaxAttempts, i \in 1..MaxFutures, v \in Values :
          StaleResolves(<<a, i>>, v)

StaleSpec == StaleInit /\ [][StaleNext]_vars

(***************************************************************************)
(* The pool operations on their own: a caller that holds a                 *)
(* SlicePoolManager and SliceActor handles and calls their methods in any  *)
(* order, with any desired_num_actors.                                     *)
(***************************************************************************)
PoolInit ==
    /\ sliceSt = [s \in ActorIds |-> "unborn"]
    /\ slice_info = [s \in ActorIds |-> NoInfo]
    /\ hostPool = [s \in ActorIds |-> <<>>]
    /\ nextId = 1
    /\ actor_pool = <<>>
    /\ num_slices = 1
    /\ max_retries_preemption = 0
    /\ max_retries_failure = 0
    /\ hosts_per_slice \in 0..MaxHosts
    /\ pc = "api"
    /\ attempt = 0
    /\ num_preemptions = 0
    /\ num_failures = 0
    /\ problems = <<>>
    /\ slice_pool = <<>>
    /\ futures = <<>>
    /\ tpu_results = <<>>
    /\ pending_futures = {}
    /\ had_a_failure = FALSE
    /\ actor_healths = <<>>
    /\ exit = NoExit
    /\ outcome = Running
    /\ fut = <<>>
    /\ hist = <<>>
    /\ lastCall = NoCall
    /\ HostFresh
    /\ stale = NotFollowed
    /\ remote_fn = WrappedFn

orchVars == <<paramVars, hostVars, stale, pc, attempt, num_preemptions, num_failures, problems,
              slice_pool, attemptVars, exit, outcome, hist>>

\* slice_pool_manager.scale_actor_pool(n)
ApiScale(n) ==
    /\ pc = "api"
    /\ LET k == ScaleCreates(World, actor_pool, n)
       IN /\ nextId + k - 1 <= MaxActors
          /\ \E outs \in StartOutcomeSeqs(k, hosts_per_slice) :
               LET r == ScaleActorPool(World, actor_pool, n, nextId, outs,
                                       hosts_per_slice)
               IN /\ SetWorld(r.w)
                  /\ actor_pool' = r.pool
                  /\ nextId' = r.next
                  /\ lastCall' = CallRecord("scale", n, World, actor_pool, nextId,
                                            r, r.next)
    /\ UNCHANGED orchVars

\* slice_pool_manager.drain_actor_pool()
ApiDrain ==
    /\ pc = "api"
    /\ LET r == DrainActorPool(World, actor_pool)
       IN /\ SetWorld(r.w)
          /\ actor_pool' = r.pool
          /\ lastCall' = CallRecord("drain", 0, World, actor_pool, nextId, r, nextId)
    /\ UNCHANGED <<nextId, orchVars>>

\* SliceActor.remote(): a slice actor outside the pool, not yet asked for
\* its topology.
ApiCreateSlice ==
    /\ pc = "api"
    /\ nextId <= MaxActors
    /\ sliceSt' = [sliceSt EXCEPT ![nextId] = "ok"]
    /\ nextId' = nextId + 1
    /\ lastCall' = [NoCall EXCEPT !.op = "create", !.target = nextId]
    /\ UNCHANGED <<slice_info, hostPool, actor_pool, orchVars>>

\* The slice actors a caller can still reach with a method call.
Callable(s) ==
    /\ Answers(World, s)
    /\ s \notin Range(ActorsOf(actor_pool))

\* actor.get_slice_info.remote() on such an actor
ApiGetSliceInfo(s, o) ==
    /\ pc = "api"
    /\ Callable(s)
    /\ slice_info[s] = NoInfo
    /\ o \in {"ok", "hostfail", "infoerr"}
    /\ o = "hostfail" => hosts_per_slice >= 1
    /\ SetWorld(GetSliceInfo(World, s, o, hosts_per_slice))
    /\ lastCall' = [NoCall EXCEPT !.op = "get_slice_info", !.target = s,
                                  !.raised = (o # "ok")]
    /\ UNCHANGED <<nextId, actor_pool, orchVars>>

\* actor.drain_actor_pool.remote(): the slice actor's own host pool
ApiSliceDrain(s) ==
    /\ pc = "api"
    /\ Callable(s)
    /\ LET r == SliceDrainActorPool(World, s)
       IN /\ SetWorld(r.w)
          /\ lastCall' = [NoCall EXCEPT !.op = "slice_drain", !.target = s,
                                        !.raised = r.raised]
    /\ UNCHANGED <<nextId, actor_pool, orchVars>>

\* actor.teardown.remote()
ApiTeardown(s, k) ==
    /\ pc = "api"
    /\ Callable(s)
    /\ k <= Len(hostPool[s])
    /\ LET r == SliceTeardownHosts(World, s, k)
       IN /\ SetWorld(r.w)
          /\ lastCall' = [NoCall EXCEPT !.op = "teardown", !.target = s,
                                        !.raised = r.raised,
                                        !.pre = hostPool[s],
                                        !.stopped = r.killed,
                                        !.repeat = (lastCall.op = "teardown"
                                                    /\ lastCall.target = s)]
    /\ UNCHANGED <<nextId, actor_pool, orchVars>>

\* A pool member stops being healthy.
ApiHealthChange(s, st) ==
    /\ pc = "api"
    /\ s \in Range(ActorsOf(actor_pool))
    /\ sliceSt[s] = "ok"
    /\ sliceSt' = [sliceSt EXCEPT ![s] = st]
    /\ lastCall' = [lastCall EXCEPT !.quiet = FALSE]
    /\ UNCHANGED <<slice_info, hostPool, nextId, actor_pool, orchVars>>

\* actor.run_remote_fn.remote(remote_fn, runtime_env) on a slice actor that
\* answers; futures holds the tasks it launched, one per host actor of its
\* pool.
ApiRunRemoteFn(s) ==
    /\ pc = "api"
    /\ Answers(World, s)
    /\ futures' = IF InsufficientHostActors(World, s) THEN <<>>
                  ELSE [k \in 1..Len(hostPool[s]) |->
                          [slice |-> s, host |-> hostPool[s][k].worker_index,
                           env |-> EmptyEnv]]
    /\ lastCall' = [NoCall EXCEPT !.op = "run_remote_fn", !.target = s,
                                  !.raised = InsufficientHostActors(World, s)]
    /\ UNCHANGED <<actorVars, actor_pool, paramVars, hostVars, stale, pc, attempt, num_preemptions,
                   num_failures, problems, slice_pool, tpu_results,
                   pending_futures, had_a_failure, actor_healths, fut, exit,
                   outcome, hist>>

PoolNext ==
    \/ \E n \in 0..MaxSlices : ApiScale(n)
    \/ ApiDrain
    \/ ApiCreateSlice
    \/ \E s \in ActorIds, o \in StartOutcomes : ApiGetSliceInfo(s, o)
    \/ \E s \in ActorIds : ApiSliceDrain(s)
    \/ \E s \in ActorIds, k \in 0..MaxHosts : ApiTeardown(s, k)
    \/ \E s \in ActorIds : ApiRunRemoteFn(s)
    \/ \E s \in ActorIds, st \in BadStatus : ApiHealthChange(s, st)

PoolSpec == PoolInit /\ [][PoolNext]_vars

(***************************************************************************)
(* The aggregation on its own: the loop over tpu_results and the if/elif   *)
(* chain, applied to any vector of results of the five kinds.              *)
(***************************************************************************)
ResultKinds == {TpuSuccess(42), TpuPreempted("NodeDiedError"),
                TpuFailed("RaySystemError"), TpuRunError("RayTaskError"),
                TpuCancelled}
ResultVectors == UNION {[1..n -> ResultKinds] : n \in 1..MaxResults}

AggInit ==
    /\ sliceSt = [s \in ActorIds |-> "unborn"]
    /\ slice_info = [s \in ActorIds |-> NoInfo]
    /\ hostPool = [s \in ActorIds |-> <<>>]
    /\ nextId = 1
    /\ actor_pool = <<>>
    /\ num_slices = 1
    /\ max_retries_preemption = MaxBudget
    /\ max_retries_failure = MaxBudget
    /\ hosts_per_slice = 1
    /\ pc = "aggregate"
    /\ attempt = 1
    /\ num_preemptions \in 0..MaxBudget
    /\ num_failures \in 0..MaxBudget
    /\ problems = <<>>
    /\ slice_pool = <<>>
    /\ futures = <<>>
    /\ tpu_results \in ResultVectors
    /\ pending_futures = {}
    /\ had_a_failure = FALSE
    /\ actor_healths = <<>>
    /\ exit = NoExit
    /\ outcome = Running
    /\ fut = <<>>
    /\ hist = <<>>
    /\ lastCall = NoCall
    /\ HostFresh
    /\ stale = NotFollowed
    /\ remote_fn = WrappedFn

AggNext == Aggregate

AggSpec == AggInit /\ [][AggNext]_vars

(***************************************************************************)
(* One TPUHostActor on its own: its methods called in any order, and the   *)
(* tasks it launched starting and ending by themselves.                    *)
(***************************************************************************)
\* The state of the actor as a record, with the calls it makes logged.
HostState == [info |-> host_info, awaitable |-> awaitable, tasks |-> tasks,
              lockfile |-> lockfile, log |-> <<>>, raised |-> FALSE]

NewTask == [status |-> "pending", cancelled |-> FALSE]

\* if self._awaitable: ray.cancel(self._awaitable, force=True, recursive=True)
CancelTracked(h) ==
    IF h.awaitable # 0
    THEN [h EXCEPT !.tasks[h.awaitable].cancelled = TRUE,
                   !.log = Append(@, <<"cancel", h.awaitable>>)]
    ELSE h

\* _hacky_remove_tpu_lockfile(): the file is unlinked; on PermissionError a
\* sudo rm is tried, whose failure (ok = FALSE) goes unnoticed.
RemoveLockfile(h, ok) ==
    [h EXCEPT !.lockfile = IF ok THEN FALSE ELSE @,
              !.log = Append(@, <<"unlock", 0>>)]

\* self._awaitable = remote_fn.options(...).remote()
LaunchAndTrack(h) ==
    LET t == Len(h.tasks) + 1
    IN [h EXCEPT !.tasks = Append(@, NewTask),
                 !.awaitable = t,
                 !.log = Append(Append(@, <<"launch", t>>), <<"track", t>>)]

RunRemoteFnKeepsOldTask(h, ok) ==
    IF ~h.info THEN [h EXCEPT !.raised = TRUE]
    ELSE LaunchAndTrack(RemoveLockfile(h, ok))

\* TPUHostActor.run_remote_fn
RunRemoteFn(h, ok) ==
    IF ~h.info THEN [h EXCEPT !.raised = TRUE]
    ELSE LaunchAndTrack(RemoveLockfile(CancelTracked(h), ok))

\* TPUHostActor.teardown
HostTeardown(h) ==
    [CancelTracked(h) EXCEPT !.awaitable = 0, !.info = FALSE]

\* TPUHostActor.get_host_info
GetHostInfo(h) == [h EXCEPT !.info = TRUE]

SetHost(op, h) ==
    /\ host_info' = h.info
    /\ awaitable' = h.awaitable
    /\ tasks' = h.tasks
    /\ lockfile' = h.lockfile
    /\ hostCall' = [op |-> op, raised |-> h.raised, log |-> h.log,
                    preInfo |-> host_info, preAwaitable |-> awaitable]

nonHostVars == <<sliceSt, slice_info, hostPool, nextId, actor_pool,
                 num_slices, max_retries_preemption, max_retries_failure,
                 hosts_per_slice, remote_fn, pc, attempt, num_preemptions,
                 num_failures, problems, slice_pool, attemptVars, exit, outcome,
                 hist, lastCall, stale>>

HostInit ==
    /\ sliceSt = [s \in ActorIds |-> "unborn"]
    /\ slice_info = [s \in ActorIds |-> NoInfo]
    /\ hostPool = [s \in ActorIds |-> <<>>]
    /\ nextId = 1
    /\ actor_pool = <<>>
    /\ num_slices = 1
    /\ max_retries_preemption = 0
    /\ max_retries_failure = 0
    /\ hosts_per_slice = 1
    /\ pc = "host"
    /\ attempt = 0
    /\ num_preemptions = 0
    /\ num_failures = 0
    /\ problems = <<>>
    /\ slice_pool = <<>>
    /\ futures = <<>>
    /\ tpu_results = <<>>
    /\ pending_futures = {}
    /\ had_a_failure = FALSE
    /\ actor_healths = <<>>
    /\ exit = NoExit
    /\ outcome = Running
    /\ fut = <<>>
    /\ hist = <<>>
    /\ lastCall = NoCall
    /\ HostFresh
    /\ stale = NotFollowed
    /\ remote_fn = WrappedFn

\* host.get_host_info.remote()
HostGetHostInfo ==
    /\ pc = "host"
    /\ SetHost("get_host_info", GetHostInfo(HostState))
    /\ UNCHANGED nonHostVars

\* host.run_remote_fn.remote(remote_fn, runtime_env)
HostRunRemoteFn(ok) ==
    /\ pc = "host"
    /\ Len(tasks) < MaxTasks
    /\ SetHost("run_remote_fn", RunRemoteFn(HostState, ok))
    /\ UNCHANGED nonHostVars

\* host.teardown.remote()
HostTeardownCall ==
    /\ pc = "host"
    /\ SetHost("teardown", HostTeardown(HostState))
    /\ UNCHANGED nonHostVars

\* A launched task that was not cancelled meanwhile gets the TPU: libtpu
\* writes its lockfile.
TaskStarts(t) ==
    /\ pc = "host"
    /\ t \in 1..Len(tasks)
    /\ tasks[t].status = "pending"
    /\ ~tasks[t].cancelled
    /\ tasks' = [tasks EXCEPT ![t].status = "running"]
    /\ lockfile' = TRUE
    /\ UNCHANGED <<nonHostVars, host_info, awaitable, hostCall>>

\* A running task returns, fails or is killed by its cancellation; the
\* lockfile stays.
TaskEnds(t) ==
    /\ pc = "host"
    /\ t \in 1..Len(tasks)
    /\ tasks[t].status = "running"
    /\ tasks' = [tasks EXCEPT ![t].status = "done"]
    /\ UNCHANGED <<nonHostVars, host_info, awaitable, lockfile, hostCall>>

HostNext ==
    \/ HostGetHostInfo
    \/ \E ok \in BOOLEAN : HostRunRemoteFn(ok)
    \/ HostTeardownCall
    \/ \E t \in 1..MaxTasks : TaskStarts(t)
    \/ \E t \in 1..MaxTasks : TaskEnds(t)

HostSpec == HostInit /\ [][HostNext]_vars

(***************************************************************************)
(* The checks run_on_pod_ray makes on its arguments before its loop.       *)
(***************************************************************************)
InputFns == {PlainCallable, FunctionNode}
            \cup {RemoteFunction(m) : m \in {NoMaxCalls} \cup 0..MaxMaxCalls}

Accepted(fn) == [ok |-> TRUE, fn |-> fn, error |-> "None"]
Refused(fn, msg) == [ok |-> FALSE, fn |-> fn, error |-> msg]

\* The if/elif chain on num_slices and remote_fn
ValidateInput(n, fn) ==
    IF n <= 0 THEN Refused(fn, "num_slices must be greater than 0")
    ELSE IF fn.type = "FunctionNode" THEN Refused(fn, "not a FunctionNode")
    ELSE IF fn.type # "RemoteFunction" THEN Accepted(WrappedFn)
    ELSE IF fn.max_calls = NoMaxCalls THEN Refused(fn, "must have max_calls set to 1")
    ELSE Accepted(fn)

ValidateInit ==
    /\ sliceSt = [s \in ActorIds |-> "unborn"]
    /\ slice_info = [s \in ActorIds |-> NoInfo]
    /\ hostPool = [s \in ActorIds |-> <<>>]
    /\ nextId = 1
    /\ actor_pool = <<>>
    /\ num_slices \in -1..MaxSlices
    /\ max_retries_preemption \in Budgets
    /\ max_retries_failure \in Budgets
    /\ hosts_per_slice = 1
    /\ remote_fn \in InputFns
    /\ pc = "validate"
    /\ attempt = 0
    /\ num_preemptions = 0
    /\ num_failures = 0
    /\ problems = <<>>
    /\ slice_pool = <<>>
    /\ futures = <<>>
    /\ tpu_results = <<>>
    /\ pending_futures = {}
    /\ had_a_failure = FALSE
    /\ actor_healths = <<>>
    /\ exit = NoExit
    /\ outcome = Running
    /\ fut = <<>>
    /\ hist = <<>>
    /\ lastCall = NoCall
    /\ HostFresh
    /\ stale = NotFollowed

\* run_on_pod_ray up to the construction of the SlicePoolManager
Validate ==
    /\ pc = "validate"
    /\ LET v == ValidateInput(num_slices, remote_fn)
       IN /\ remote_fn' = v.fn
          /\ IF v.ok
             THEN pc' = "loop" /\ UNCHANGED outcome
             ELSE pc' = "done" /\ outcome' = Raised("validation", v.error, "None")
    /\ UNCHANGED <<actorVars, actor_pool, num_slices, max_retries_preemption,
                   max_retries_failure, hosts_per_slice, hostVars, stale, attempt,
                   num_preemptions, num_failures, problems, slice_pool,
                   attemptVars, exit, hist, lastCall>>

ValidateNext == Validate

ValidateSpec == ValidateInit /\ [][ValidateNext]_vars

(***************************************************************************)
(* Properties.                                                             *)
(***************************************************************************)
Max(a, b) == IF a >= b THEN a ELSE b
FutKinds == {fut[i].kind : i \in 1..Len(fut)}
AllAre(h, v) == \A i \in 1..Len(h) : h[i] = v
PoolActors(pool) == Range(ActorsOf(pool))
PreemptedTooManyTimes == "TPU job was preempted too many times"

\* C1: with non-negative budgets the retry loop makes finitely many attempts:
\* every attempt that does not return raises num_preemptions or num_failures,
\* so no run makes more than max_retries_preemption + max_retries_failure + 1
\* attempts.
C1_FinitelyManyAttempts ==
    (max_retries_preemption >= 0 /\ max_retries_failure >= 0)
        => attempt <= max_retries_preemption + max_retries_failure + 1

\* The position of slice actor s in slice_pool
SlicePos(s) == CHOOSE i \in 1..Len(slice_pool) : slice_pool[i].actor = s

\* C2: when run_on_pod_ray returns, element i of the returned list is what
\* the i-th dispatched future resolved with, the futures being numbered by
\* slice in pool order and by host within a slice, whatever the order in which
\* they finished.
C2_ResultsInDispatchOrder ==
    outcome.kind = "returned" =>
        /\ Len(outcome.value) = Len(futures)
        /\ \A i \in 1..Len(futures) :
              /\ fut[i].kind = "TpuSuccess"
              /\ outcome.value[i] = fut[i].result
        /\ \A i, j \in 1..Len(futures) :
              i < j => \/ SlicePos(futures[i].slice) < SlicePos(futures[j].slice)
                       \/ /\ futures[i].slice = futures[j].slice
                          /\ futures[i].host < futures[j].host

\* A run returned two different values, the second future finishing first.
C2_Witness ==
    /\ outcome.kind = "returned"
    /\ Len(futures) = 2
    /\ fut[2].nth < fut[1].nth
    /\ outcome.value[1] # outcome.value[2]

\* A future of the attempt resolved with an application error.
AppErrorResolved == "TpuRunError" \in FutKinds

\* C3: when a future resolves with an ApplicationError, every future still
\* pending at that moment is recorded as Cancelled, the results recorded
\* before are kept, and the attempt adds exactly 1 to num_failures and nothing
\* to num_preemptions.
C3_AppErrorCancelsRest ==
    /\ [](pc = "aggregate" /\ AppErrorResolved =>
            /\ \A i \in pending_futures : tpu_results[i] = TpuCancelled
            /\ \A i \in (1..Len(futures)) \ pending_futures :
                  tpu_results[i].kind = fut[i].kind)
    /\ [][pc = "aggregate" /\ AppErrorResolved =>
            /\ num_failures' = num_failures + 1
            /\ num_preemptions' = num_preemptions]_vars

\* An application error arrived while another future was pending.
C3_Witness ==
    /\ pc = "aggregate"
    /\ AppErrorResolved
    /\ pending_futures # {}
    /\ \A i \in pending_futures : tpu_results[i] = TpuCancelled

\* C4: the budgets are independent: an attempt in which a future resolved
\* Preempted leaves num_failures alone, one in which a future resolved with an
\* ApplicationError leaves num_preemptions alone, and once a failure takes
\* num_failures over its budget while num_preemptions is within its own, no
\* further attempt starts and the run ends by raising through the failure
\* branch of the final raise statements, with the application's error and not
\* the preemption error.
C4_IndependentBudgets ==
    /\ (pc = "loop" /\ attempt > 0 /\ Len(hist) = attempt) =>
          /\ num_preemptions =
                Cardinality({i \in 1..Len(hist) : hist[i] \in {"preempted", "scalefail"}})
          /\ num_failures = Cardinality({i \in 1..Len(hist) : hist[i] = "failed"})
    /\ (/\ num_failures > 0
        /\ num_failures > max_retries_failure
        /\ num_preemptions <= max_retries_preemption) =>
          /\ pc \in {"loop", "finally", "done"}
          /\ Len(hist) = attempt
          /\ hist[Len(hist)] = "failed"
          /\ pc \in {"finally", "done"} => exit.kind = "exhausted"
          /\ pc = "done" =>
                /\ outcome.kind = "raised"
                /\ outcome.branch = "failed"
                /\ outcome.exc # PreemptedTooManyTimes

\* C5: if every attempt ends Preempted (budgets non-negative), the loop is
\* left only after exactly max_retries_preemption + 1 attempts, by exhaustion,
\* never by a return, and the run ends by raising "TPU job was preempted too
\* many times".
C5_AlwaysPreempted ==
    (/\ max_retries_preemption >= 0 /\ max_retries_failure >= 0
     /\ AllAre(hist, "preempted")
     /\ Len(hist) = attempt
     /\ pc \in {"finally", "done"}) =>
        /\ exit.kind = "exhausted"
        /\ attempt = max_retries_preemption + 1
        /\ num_failures = 0
        /\ pc = "done" =>
              /\ outcome.kind = "raised"
              /\ outcome.branch = "preempted"
              /\ outcome.exc = PreemptedTooManyTimes

\* hist is k failed attempts followed by a successful one
FailsThenSuccess ==
    /\ hist # <<>>
    /\ hist[Len(hist)] = "success"
    /\ \A i \in 1..(Len(hist) - 1) : hist[i] = "failed"

\* The slice pool drained by the finally clause held no unhealthy slice.
DrainedHealthy == lastCall.op = "drain" /\ lastCall.preHealthy = PoolActors(lastCall.pre)

\* C6: while the attempts so far all ended in ApplicationError and there were
\* at most max_retries_failure of them, the run is not given up; and when
\* the task then succeeds the attempt ends the loop by returning its results
\* after exactly k + 1 attempts, with num_failures = k and num_preemptions = 0,
\* and with no slice preempted the run returns them and raises nothing.
C6_FailsThenSucceeds ==
    /\ (/\ max_retries_preemption >= 0
        /\ AllAre(hist, "failed")
        /\ Len(hist) = attempt
        /\ Len(hist) <= max_retries_failure) =>
            /\ num_failures = Len(hist)
            /\ pc \notin {"finally", "done"}
    /\ (FailsThenSuccess /\ Len(hist) - 1 <= max_retries_failure) =>
            /\ pc \in {"finally", "done"}
            /\ exit.kind = "return"
            /\ attempt = Len(hist)
            /\ num_failures = Len(hist) - 1
            /\ num_preemptions = 0
            /\ exit.value = [i \in 1..Len(fut) |-> fut[i].result]
            /\ (pc = "done" /\ DrainedHealthy) => outcome = Returned(exit.value)

\* A run that failed once, then succeeded and returned a value.
C6_Witness ==
    /\ pc = "done"
    /\ hist = <<"failed", "success">>
    /\ outcome.kind = "returned"
    /\ outcome.value # <<>>

\* Every slice of the pool answers healthy.
AllSlicesOk == \A s \in PoolActors(actor_pool) : sliceSt[s] = "ok"
\* No future of the attempt resolved with anything but a value.
NoTaskError == FutKinds \subseteq {"None", "TpuSuccess"}

\* C7: in a first attempt whose slices were acquired and stay healthy and
\* whose tasks all succeed, nothing counts as a failure, the wait loop ends
\* only when every future has finished, and the run returns one result per
\* dispatched host (num_slices * hosts per slice of them, in dispatch order)
\* with both counters still 0.
C7_AllSucceed ==
    /\ []((/\ pc \in {"wait", "cancel", "aggregate"} /\ attempt = 1
           /\ AllSlicesOk /\ NoTaskError) =>
            /\ ~had_a_failure
            /\ pc # "wait" => pending_futures = {})
    /\ [][(/\ pc = "aggregate" /\ attempt = 1
           /\ AllSlicesOk /\ NoTaskError) =>
            /\ pc' = "finally"
            /\ exit'.kind = "return"
            /\ Len(exit'.value) = num_slices * hosts_per_slice
            /\ exit'.value = [i \in 1..Len(fut) |-> fut[i].result]
            /\ num_preemptions' = 0
            /\ num_failures' = 0]_vars
    /\ []((pc = "done" /\ exit.kind = "return" /\ DrainedHealthy) =>
            outcome = Returned(exit.value))

\* Two slices of one host each, every task returning 42.
C7_Witness ==
    /\ pc = "done"
    /\ attempt = 1
    /\ num_slices = 2
    /\ hosts_per_slice = 1
    /\ outcome = Returned(<<42, 42>>)
    /\ num_preemptions = 0
    /\ num_failures = 0

\* The last pool operation was a scale_actor_pool that returned.
ScaleReturned == lastCall.op = "scale" /\ ~lastCall.raised

\* C8 as stated: after a scale_actor_pool(n) that returns, the pool holds
\* exactly n members, each healthy in the call's health check or new.
C8_ExactlyN ==
    ScaleReturned =>
        /\ Len(actor_pool) = lastCall.n
        /\ PoolActors(actor_pool) \subseteq lastCall.preHealthy \cup lastCall.created

\* C8 amended: after a scale_actor_pool(n) that returns, the pool holds
\* max(n, h) members, h being the number of members that answered healthy in
\* the call's health check (none of them is dropped); each member answered
\* healthy in that check or was created in the call, and no member occurs
\* twice.
C8_AtLeastN ==
    ScaleReturned =>
        /\ Len(actor_pool) = Max(lastCall.n, Cardinality(lastCall.preHealthy))
        /\ Len(actor_pool) >= lastCall.n
        /\ lastCall.preHealthy \subseteq PoolActors(actor_pool)
        /\ PoolActors(actor_pool) \subseteq lastCall.preHealthy \cup lastCall.created
        /\ Cardinality(PoolActors(actor_pool)) = Len(actor_pool)

\* A scale that pruned an unhealthy member, kept a healthy one and added one.
C8_Witness ==
    /\ ScaleReturned
    /\ lastCall.stopped # {}
    /\ lastCall.preHealthy # {}
    /\ lastCall.created # {}

\* C9: a scale_actor_pool(n) right after one that returned, with no health
\* change in between, returns, creates no actor, stops none and leaves the
\* pool as it was.
C9_SecondScaleIsNoOp ==
    (lastCall.op = "scale" /\ lastCall.repeat) =>
        /\ ~lastCall.raised
        /\ lastCall.created = {}
        /\ lastCall.stopped = {}
        /\ actor_pool = lastCall.pre

\* A repeated scale on a pool of two members.
C9_Witness ==
    /\ lastCall.op = "scale"
    /\ lastCall.repeat
    /\ lastCall.n = 2
    /\ Len(actor_pool) = 2

\* C10: drain_actor_pool of the slice pool, drain_actor_pool of a slice
\* actor's host pool and SliceActor.teardown never raise and leave the pool
\* empty, in every state they are called in.
C10_DrainNeverRaises ==
    /\ lastCall.op = "drain" => ~lastCall.raised /\ actor_pool = <<>>
    /\ lastCall.op \in {"slice_drain", "teardown"} =>
          ~lastCall.raised /\ hostPool[lastCall.target] = <<>>

\* C11: whenever run_on_pod_ray has left (returned or raised) after its pool
\* manager was built, the slice pool is empty and every slice actor that was
\* a member when the finally clause ran has been stopped.
C11_PoolDrainedAtExit ==
    pc = "done" =>
        /\ lastCall.op = "drain"
        /\ actor_pool = <<>>
        /\ \A s \in PoolActors(lastCall.pre) : sliceSt[s] = "killed"

CoordinationVars == {"MEGASCALE_COORDINATOR_ADDRESS", "MEGASCALE_NUM_SLICES",
                     "MEGASCALE_PORT", "MEGASCALE_SLICE_ID"}

\* C12: every task dispatched in an attempt with k slices in the pool carries,
\* if k > 1, the four coordination variables: the slice's position in the pool
\* counted from 0, the count k, port 8081 and the address of the pool's first
\* member at port 8081; if k = 1 it carries no coordination variable.
C12_CoordinationEnv ==
    \A f \in 1..Len(futures) :
        LET k == Len(slice_pool)
            env == futures[f].env
        IN /\ k = num_slices
           /\ k = 1 => DOMAIN env = {}
           /\ k > 1 =>
                /\ DOMAIN env = CoordinationVars
                /\ env.MEGASCALE_SLICE_ID = SlicePos(futures[f].slice) - 1
                /\ env.MEGASCALE_NUM_SLICES = k
                /\ env.MEGASCALE_PORT = 8081
                /\ env.MEGASCALE_COORDINATOR_ADDRESS =
                      <<slice_pool[1].actor_info.ip_address, 8081>>

\* A second attempt on two slices whose head is not the first attempt's head.
C12_Witness ==
    /\ attempt = 2
    /\ Len(slice_pool) = 2
    /\ Len(futures) = 2
    /\ futures[2].env.MEGASCALE_SLICE_ID = 1
    /\ futures[2].env.MEGASCALE_COORDINATOR_ADDRESS[1] = slice_pool[1].actor
    /\ slice_pool[1].actor # 1

NodeLossErrors == {"NodeDiedError", "ActorDiedError", "ActorUnavailableError",
                   "WorkerCrashedError"}

\* C13: a future that raised a node-died, actor-died, actor-unavailable or
\* worker-crashed error is recorded Preempted, whatever the preemption signal
\* (it is not even read); one that raised a task error is recorded Preempted
\* when the preemption signal was true, and as an application error
\* (TpuRunError) when the signal was false and the error holds no timeout.
C13_Classifier ==
    \A f \in 1..Len(fut) :
        /\ fut[f].error \in NodeLossErrors =>
              fut[f].kind = "TpuPreempted" /\ fut[f].sig = "unread"
        /\ (fut[f].error \in {"RayTaskError", "RayTaskError_timeout"}
              /\ fut[f].sig = "true") => fut[f].kind = "TpuPreempted"
        /\ (fut[f].error = "RayTaskError" /\ fut[f].sig = "false") =>
              fut[f].kind = "TpuRunError"
        /\ fut[f].kind # "None" => tpu_results[f].kind = fut[f].kind

\* A task error under a true preemption signal, recorded Preempted.
C13_Witness ==
    \E f \in 1..Len(fut) :
        /\ fut[f].error = "RayTaskError"
        /\ fut[f].sig = "true"
        /\ tpu_results[f] = TpuPreempted("RayTaskError")

\* A future of the attempt raised an internal system error of the scheduler.
SystemErrorResolved == \E f \in 1..Len(fut) : fut[f].error = "RaySystemError"

\* C14: a future that raised a RaySystemError is recorded as TpuFailed (the
\* infrastructure-failure kind, neither TpuPreempted nor TpuRunError), and
\* the attempt holding it adds 1 to num_preemptions and nothing to
\* num_failures.
C14_SystemErrorIsInfrastructureFailure ==
    /\ [](\A f \in 1..Len(fut) :
            fut[f].error = "RaySystemError" => tpu_results[f].kind = "TpuFailed")
    /\ [][pc = "aggregate" /\ SystemErrorResolved =>
            /\ num_preemptions' = num_preemptions + 1
            /\ num_failures' = num_failures]_vars

\* C15: the aggregation follows a strict precedence: a vector holding a
\* Preempted or infrastructure-failure result adds exactly 1 to
\* num_preemptions and nothing to num_failures, application errors in it
\* notwithstanding; otherwise one holding an application error adds exactly 1
\* to num_failures and nothing to num_preemptions; otherwise one holding a
\* Cancelled result changes neither counter and the attempt is retried;
\* otherwise the results are returned, in order.
C15_AggregationPrecedence ==
    [][(pc = "aggregate" /\ "None" \notin KindsOf(tpu_results)) =>
        LET K == KindsOf(tpu_results)
        IN IF K \cap {"TpuPreempted", "TpuFailed"} # {}
           THEN /\ num_preemptions' = num_preemptions + 1
                /\ num_failures' = num_failures
                /\ pc' = "loop"
           ELSE IF "TpuRunError" \in K
           THEN /\ num_failures' = num_failures + 1
                /\ num_preemptions' = num_preemptions
                /\ pc' = "loop"
           ELSE IF "TpuCancelled" \in K
           THEN /\ num_failures' = num_failures
                /\ num_preemptions' = num_preemptions
                /\ pc' = "loop"
           ELSE /\ num_failures' = num_failures
                /\ num_preemptions' = num_preemptions
                /\ pc' = "finally"
                /\ exit'.kind = "return"
                /\ exit'.value = [i \in 1..Len(tpu_results) |-> tpu_results[i].result]
      ]_vars

\* A vector holding an application error and then a Preempted result was
\* counted as one preemption.
C15_Witness ==
    /\ pc = "loop"
    /\ hist = <<"preempted">>
    /\ num_preemptions = 1
    /\ num_failures = 0
    /\ problems = <<"RayTaskError", "NodeDiedError">>

FailedTooManyTimes == "TPU job failed too many times"

\* C16: when the run ends by budget exhaustion (and the cleanup raised
\* nothing), the raised exception's message is "TPU job was preempted too many
\* times" exactly when num_preemptions exceeded its budget, and "TPU job
\* failed too many times" when only num_failures exceeded its budget.
C16_ExhaustionMessage ==
    (pc = "done" /\ exit.kind = "exhausted" /\ outcome.branch # "finally") =>
        /\ outcome.kind = "raised"
        /\ outcome.exc = PreemptedTooManyTimes
              <=> num_preemptions > max_retries_preemption
        /\ (/\ num_preemptions <= max_retries_preemption
            /\ num_failures > max_retries_failure) =>
              outcome.exc = FailedTooManyTimes

\* C17: an attempt whose scale_actor_pool raises dispatches nothing, adds
\* exactly 1 to num_preemptions and nothing to num_failures, records the
\* error, and goes back to the loop condition.
C17_ScaleFailureCountsAsPreemption ==
    [][(pc = "loop" /\ attempt' = attempt + 1 /\ lastCall'.raised) =>
        /\ lastCall'.op = "scale"
        /\ num_preemptions' = num_preemptions + 1
        /\ num_failures' = num_failures
        /\ pc' = "loop"
        /\ futures' = <<>> /\ fut' = <<>> /\ tpu_results' = <<>>
        /\ problems' # <<>>
      ]_vars

\* A failed scale was followed by a second attempt that dispatched.
C17_Witness ==
    /\ attempt = 2
    /\ hist = <<"scalefail">>
    /\ num_preemptions = 1
    /\ num_failures = 0
    /\ pc = "wait"

\* A slice of the attempt's pool is no longer healthy.
SomeSliceUnhealthy == \E i \in 1..Len(slice_pool) : sliceSt[slice_pool[i].actor] # "ok"

\* C18: while futures are pending, every cycle of the wait loop sees the
\* current health of every slice of the pool: a cycle that runs while some
\* slice, at any position, is unhealthy ends the wait loop, as a failed
\* future does.
C18_HealthPolledEveryCycle ==
    [][(pc = "wait" /\ sliceSt' = sliceSt /\ SomeSliceUnhealthy) => pc' = "cancel"]_vars

\* C19: drain_actor_pool of the slice pool absorbs the error of a member's
\* stop: it never raises, every actor that was a member has been stopped
\* when it returns, and the pool is empty.
C19_DrainAbsorbsStopErrors ==
    lastCall.op = "drain" =>
        /\ ~lastCall.raised
        /\ \A s \in PoolActors(lastCall.pre) : sliceSt[s] = "killed"
        /\ actor_pool = <<>>

\* The statuses in which _stop_actor's graceful steps raise nothing to the
\* caller: the teardown ran, or timed out, or found the actor already gone.
StopsQuietly(st) == st \in {"ok", "preempted", "dead", "killed"}

\* C20: every _stop_actor call of a drain_actor_pool ends with the actor
\* killed, whatever its graceful steps did: each member is killed up to and
\* including the first whose stop raises; a stop that timed out or found the
\* actor already gone raises nothing, so a drain over such members returns;
\* and an actor that answered its teardown was torn down (host pool empty,
\* topology discarded) before it was killed.
C20_StopAlwaysKills ==
    lastCall.op = "drain" =>
        LET pre == ActorsOf(lastCall.pre)
        IN /\ \A i \in 1..Len(pre) :
                (\A j \in 1..(i - 1) : StopsQuietly(lastCall.preSt[pre[j]]))
                    => sliceSt[pre[i]] = "killed"
           /\ (\A i \in 1..Len(pre) : StopsQuietly(lastCall.preSt[pre[i]]))
                    => ~lastCall.raised /\ actor_pool = <<>>
           /\ \A i \in 1..Len(pre) :
                (sliceSt[pre[i]] = "killed"
                   /\ lastCall.preSt[pre[i]] \in {"ok", "preempted"})
                    => hostPool[pre[i]] = <<>> /\ slice_info[pre[i]] = NoInfo

\* A drain whose first member was already gone (absorbed) and whose second
\* member's teardown raised: both were killed.
C20_Witness ==
    /\ lastCall.op = "drain"
    /\ Len(lastCall.pre) = 2
    /\ lastCall.preSt[lastCall.pre[1].actor] = "dead"
    /\ lastCall.preSt[lastCall.pre[2].actor] = "unavailable"
    /\ lastCall.raised
    /\ sliceSt[lastCall.pre[1].actor] = "killed"
    /\ sliceSt[lastCall.pre[2].actor] = "killed"

\* The health-check pass of the last scale_actor_pool found nothing to prune.
NothingToPrune == lastCall.preHealthy = PoolActors(lastCall.pre)

\* C21: in a scale_actor_pool(n) (on a pool with nothing to prune), every
\* actor created by the call either joined the pool or was stopped, one that
\* reported its info is in the pool, and the call raised if and only if the
\* pool holds fewer than n members.
C21_FailedStartIsSilent ==
    (lastCall.op = "scale" /\ lastCall.quiet /\ NothingToPrune) =>
        /\ lastCall.raised <=> Len(actor_pool) < lastCall.n
        /\ \A s \in lastCall.created :
              /\ s \in PoolActors(actor_pool) \/ sliceSt[s] = "killed"
              /\ (sliceSt[s] = "ok" /\ slice_info[s] # NoInfo
                    /\ Len(hostPool[s]) = slice_info[s])
                   => s \in PoolActors(actor_pool)

\* C22: after a scale_actor_pool, returned or raised, the pool holds no
\* member that its health-check pass found unhealthy, each of those has been
\* stopped, and the members found healthy are all still in the pool, in
\* their original order.
C22_UnhealthyPruned ==
    (lastCall.op = "scale" /\ lastCall.quiet) =>
        /\ \A s \in PoolActors(lastCall.pre) \ lastCall.preHealthy :
              s \notin PoolActors(actor_pool) /\ sliceSt[s] = "killed"
        /\ SelectSeq(actor_pool, LAMBDA m : m.actor \in PoolActors(lastCall.pre))
              = SelectSeq(lastCall.pre, LAMBDA m : m.actor \in lastCall.preHealthy)

\* The futures of the attempt that resolved with something else than a value.
NonSuccess == {f \in 1..Len(fut) : fut[f].kind \notin {"None", "TpuSuccess"}}

\* C23: once a future of the attempt has resolved with a non-Success outcome
\* the wait loop is over and no further future is classified; so an attempt's
\* results hold at most one outcome that is neither Success nor Cancelled,
\* and never a Preempted one together with an application error.
C23_StopAtFirstFailure ==
    /\ [](/\ NonSuccess # {} => pc \notin {"wait", "dispatch"}
          /\ Cardinality(NonSuccess) <= 1
          /\ Cardinality({i \in 1..Len(tpu_results) :
                 tpu_results[i].kind \notin {"None", "TpuSuccess", "TpuCancelled"}}) <= 1
          /\ ~({"TpuPreempted", "TpuRunError"} \subseteq KindsOf(tpu_results)))
    /\ [][NonSuccess # {} =>
            \/ fut' = <<>>
            \/ /\ Len(fut') = Len(fut)
               /\ \A f \in 1..Len(fut) : fut'[f].kind = fut[f].kind]_vars

\* A Preempted future ended the attempt while another future was pending.
C23_Witness ==
    /\ pc = "aggregate"
    /\ Len(fut) = 2
    /\ fut[1].kind = "TpuPreempted"
    /\ fut[2].kind = "None"
    /\ tpu_results[2] = TpuCancelled

\* C24: when an attempt stopped waiting because of a failure, ray.cancel was
\* called on every future still pending (whether or not one of the calls
\* raised), each of them is recorded Cancelled, and at the start of the
\* aggregation every index holds one outcome: the one its future resolved
\* with, or Cancelled.
C24_PendingCancelled ==
    (pc = "aggregate" /\ had_a_failure) =>
        /\ \A f \in pending_futures :
              fut[f].cancel /\ tpu_results[f] = TpuCancelled
        /\ \A i \in 1..Len(tpu_results) :
              /\ tpu_results[i].kind # "None"
              /\ i \notin pending_futures => tpu_results[i].kind = fut[i].kind

\* C25: run_on_pod_ray never returns an empty list of results; an attempt
\* that dispatched no host future ends the run with an error.
C25_NeverReturnsEmpty ==
    outcome.kind = "returned" => outcome.value # <<>>

\* The error of the future that resolved first with an error in the current
\* attempt ("None" when no future did).
FirstTaskError ==
    LET bad == {f \in 1..Len(fut) :
                  fut[f].kind \in {"TpuPreempted", "TpuFailed", "TpuRunError"}}
    IN IF bad = {} THEN "None"
       ELSE fut[CHOOSE f \in bad : \A g \in bad : fut[f].nth <= fut[g].nth].error

DispatchedAfterBadAttempt ==
    /\ pc = "wait"
    /\ hist # <<>>
    /\ hist[Len(hist)] \in {"failed", "preempted"}

\* C27 as stated: no slice worker of a failed or preempted attempt is
\* dispatched to in the next attempt.
C27_NoWorkerReused ==
    DispatchedAfterBadAttempt =>
        PoolActors(slice_pool) \cap PoolActors(lastCall.pre) = {}

\* C27 amended: between two attempts the pool is pruned, not rebuilt.  The
\* next attempt dispatches to every member of the previous pool that answered
\* the health check, host workers included, and to newly created slice
\* workers only in place of the members that did not.
C27_HealthyWorkersKept ==
    DispatchedAfterBadAttempt =>
        /\ lastCall.op = "scale"
        /\ lastCall.preHealthy \subseteq PoolActors(slice_pool)
        /\ PoolActors(slice_pool) \subseteq lastCall.preHealthy \cup lastCall.created
        /\ PoolActors(lastCall.pre) \ lastCall.preHealthy
              \subseteq {s \in ActorIds : sliceSt[s] = "killed"}
        /\ \A s \in lastCall.preHealthy : Len(hostPool[s]) = slice_info[s]

\* The second attempt dispatches to the very slice worker whose task failed in
\* the first.
C27_Witness ==
    /\ DispatchedAfterBadAttempt
    /\ lastCall.preHealthy # {}
    /\ PoolActors(slice_pool) = PoolActors(lastCall.pre)

\* C28: SliceActor.run_remote_fn raises and launches nothing when the slice
\* has no topology (never discovered, or discarded by teardown) or fewer host
\* actors than its topology reports; when it returns, the host pool has
\* exactly the reported number of members and one task was launched on each.
C28_SliceRunRemoteFn ==
    lastCall.op = "run_remote_fn" =>
        LET s == lastCall.target
        IN /\ (slice_info[s] = NoInfo \/ Len(hostPool[s]) < slice_info[s]) =>
                 (lastCall.raised /\ futures = <<>>)
           /\ ~lastCall.raised =>
                 /\ Len(hostPool[s]) = slice_info[s]
                 /\ Len(futures) = slice_info[s]
                 /\ \A k \in 1..Len(hostPool[s]) :
                      Cardinality({i \in 1..Len(futures) :
                                     /\ futures[i].slice = s
                                     /\ futures[i].host = hostPool[s][k].worker_index}) = 1

\* A slice whose pool came up one host short refuses to run.
C28_Witness ==
    /\ lastCall.op = "run_remote_fn"
    /\ lastCall.raised
    /\ slice_info[lastCall.target] = MaxHosts
    /\ Len(hostPool[lastCall.target]) = MaxHosts - 1

\* An attempt has dispatched and not yet been aggregated.
Dispatched == pc \in {"wait", "cancel", "aggregate"}

\* C29: the pool never has more than num_slices members; an attempt that
\* dispatches does so to a pool of exactly num_slices distinct members, and
\* launches on each member one task per host of that member, no more.
C29_PoolOfNumSlices ==
    /\ Len(actor_pool) <= num_slices
    /\ Len(slice_pool) <= num_slices
    /\ Dispatched =>
          /\ Len(slice_pool) = num_slices
          /\ Cardinality(PoolActors(slice_pool)) = num_slices
          /\ \A i \in 1..Len(futures) : futures[i].slice \in PoolActors(slice_pool)
          /\ \A s \in PoolActors(slice_pool) :
                \A k \in 1..Len(hostPool[s]) :
                   Cardinality({i \in 1..Len(futures) :
                                  /\ futures[i].slice = s
                                  /\ futures[i].host = hostPool[s][k].worker_index}) = 1

\* A second attempt on two slices, one of them created in place of a pruned
\* one, has dispatched.
C29_Witness ==
    /\ Dispatched
    /\ attempt >= 2
    /\ num_slices = MaxSlices
    /\ Len(futures) = MaxSlices
    /\ lastCall.created # {}

\* C30: TPUHostActor.run_remote_fn raises and launches nothing exactly when
\* the host info is not set; otherwise it cancels the tracked task if there is
\* one, then removes the lockfile, then launches the new task, then tracks it.
\* The actor tracks no handle or one of a task it launched, and every task
\* it launched before the latest has had a cancellation issued.
C30_HostRunRemoteFn ==
    /\ [](hostCall.op = "run_remote_fn" =>
            /\ hostCall.raised <=> ~hostCall.preInfo
            /\ hostCall.raised => hostCall.log = <<>>
            /\ ~hostCall.raised =>
                 /\ awaitable = Len(tasks)
                 /\ hostCall.log =
                      (IF hostCall.preAwaitable # 0
                       THEN << <<"cancel", hostCall.preAwaitable>> >> ELSE <<>>)
                      \o << <<"unlock", 0>>, <<"launch", Len(tasks)>>,
                            <<"track", Len(tasks)>> >>)
    /\ [](/\ awaitable \in 0..Len(tasks)
          /\ \A t \in 1..Len(tasks) :
               (t < Len(tasks) \/ t # awaitable) => tasks[t].cancelled)
    /\ [][(hostCall' # hostCall /\ hostCall'.op = "run_remote_fn"
           /\ hostCall'.raised) =>
            (tasks' = tasks /\ awaitable' = awaitable /\ lockfile' = lockfile)]_vars

\* A third task launched after the second was cancelled by the call itself
\* and the first by a teardown.
C30_Witness ==
    /\ hostCall.op = "run_remote_fn"
    /\ ~hostCall.raised
    /\ hostCall.preAwaitable = 2
    /\ Len(tasks) = 3
    /\ tasks[1].cancelled /\ tasks[2].cancelled /\ ~tasks[3].cancelled

\* C31: after SliceActor.teardown every host actor the slice had has been
\* stopped and killed, the host pool is empty and the slice info is
\* discarded.
C31_TeardownStopsHosts ==
    lastCall.op = "teardown" =>
        /\ lastCall.stopped =
              {lastCall.pre[i].worker_index : i \in 1..Len(lastCall.pre)}
        /\ hostPool[lastCall.target] = <<>>
        /\ slice_info[lastCall.target] = NoInfo

\* Slice actor s reported (or tried to report) its info with fewer host
\* actors than its topology asks for.
HostPoolShort(s) ==
    /\ slice_info[s] # NoInfo
    /\ Len(hostPool[s]) < slice_info[s]

\* C32: a slice joins the orchestrator's pool only with a host pool scaled to
\* its host count, and a slice whose host pool could not be filled has been
\* stopped and is not in the pool.
C32_OnlyFullSlicesJoin ==
    /\ [][\A s \in PoolActors(actor_pool') \ PoolActors(actor_pool) :
             slice_info'[s] # NoInfo /\ Len(hostPool'[s]) = slice_info'[s]]_vars
    /\ [](\A s \in ActorIds :
             HostPoolShort(s) =>
                (sliceSt[s] = "killed" /\ s \notin PoolActors(actor_pool)))

\* C33: an exception of the control loop itself (raised by the dispatch to a
\* slice, or by the aggregation) ends the run: no attempt follows, no counter
\* changes, the pool is drained and the caller gets that exception.
C33_LoopErrorReRaised ==
    /\ [][exit.kind = "exception" =>
            /\ attempt' = attempt
            /\ num_preemptions' = num_preemptions
            /\ num_failures' = num_failures]_vars
    /\ []((pc = "done" /\ exit.kind = "exception") =>
            /\ outcome = Raised("except", exit.exc, "None")
            /\ actor_pool = <<>>)

\* A task error holding a timeout was resolved while the preemption signal
\* was false.
TimeoutWithoutSignal(f) ==
    /\ fut[f].error = "RayTaskError_timeout"
    /\ fut[f].sig = "false"

\* C34: for a task error the preemption signal is read, and a task error
\* holding a timeout is recorded Preempted also when the signal is false; the
\* attempt is then charged to the preemption budget, not the failure budget.
C34_TimeoutIsPreemption ==
    /\ [](\A f \in 1..Len(fut) :
            /\ fut[f].error \in {"RayTaskError", "RayTaskError_timeout"} =>
                  fut[f].sig \in {"true", "false"}
            /\ TimeoutWithoutSignal(f) =>
                  (fut[f].kind = "TpuPreempted"
                   /\ tpu_results[f] = TpuPreempted("RayTaskError_timeout")))
    /\ [][(pc = "aggregate" /\ \E f \in 1..Len(fut) : TimeoutWithoutSignal(f)) =>
            /\ num_preemptions' = num_preemptions + 1
            /\ num_failures' = num_failures]_vars

\* Such a timeout, recorded Preempted, is about to be aggregated.
C34_Witness ==
    /\ pc = "aggregate"
    /\ \E f \in 1..Len(fut) :
          TimeoutWithoutSignal(f) /\ tpu_results[f].kind = "TpuPreempted"

\* The errors _handle_ray_error and the wait loop have no case for: a
\* RayError of no recognised subtype, and an exception that is no RayError.
UnrecognisedErrors == {"RayError", "Exception"}

UnrecognisedResolved == \E f \in 1..Len(fut) : fut[f].error \in UnrecognisedErrors

\* C35: a future that resolved with an unrecognised error is recorded as an
\* application error (TpuRunError); the loop goes on without leaving the try
\* block, and the attempt adds 1 to num_failures and nothing to
\* num_preemptions.
C35_UnrecognisedIsApplicationError ==
    /\ [](\A f \in 1..Len(fut) :
            fut[f].error \in UnrecognisedErrors =>
               (fut[f].kind = "TpuRunError"
                /\ tpu_results[f] = TpuRunError(fut[f].error)))
    /\ [][UnrecognisedResolved' => exit' = exit]_vars
    /\ [][(pc = "aggregate" /\ UnrecognisedResolved) =>
            /\ num_failures' = num_failures + 1
            /\ num_preemptions' = num_preemptions
            /\ pc' = "loop"]_vars

\* An exception that is no RayError, recorded as an application error.
C35_Witness ==
    /\ pc = "aggregate"
    /\ \E f \in 1..Len(fut) :
          fut[f].error = "Exception" /\ tpu_results[f] = TpuRunError("Exception")

\* The function carries the run-at-most-once policy, or is a plain callable
\* (which is wrapped with it).
RunsAtMostOnce(fn) ==
    \/ fn.type = "Callable"
    \/ fn.type = "RemoteFunction" /\ fn.max_calls = 1

\* C36: the arguments are checked before any worker is created and any
\* attempt made; the run goes on only with num_slices > 0 and a
\* RemoteFunction of max_calls = 1 (given so, or wrapped from a plain
\* callable), and is refused exactly when num_slices <= 0 or the function is a
\* FunctionNode or a RemoteFunction without that policy.
C36_InvalidInputRefused ==
    /\ pc = "loop" => (num_slices > 0 /\ remote_fn = RemoteFunction(1))
    /\ pc = "done" =>
          /\ outcome.kind = "raised" /\ outcome.branch = "validation"
          /\ num_slices <= 0 \/ ~RunsAtMostOnce(remote_fn)
          /\ nextId = 1 /\ attempt = 0 /\ actor_pool = <<>>

\* C37: when the loop is left through its condition, a counter exceeds its
\* budget, whatever the sign of the budgets, and the statement after the loop
\* never reaches its last branch ("Unknown error occurred during TPU job").
C37_UnknownBranchNeverTaken ==
    /\ exit.kind = "exhausted" =>
          \/ num_preemptions > max_retries_preemption
          \/ num_failures > max_retries_failure
    /\ outcome.branch # "unknown"
    /\ outcome.exc # "Unknown error occurred during TPU job"

\* A run with a negative failure budget left the loop before any attempt and
\* raised from the failure branch.
C37_Witness ==
    /\ pc = "done"
    /\ exit.kind = "exhausted"
    /\ max_retries_failure < 0
    /\ max_retries_preemption >= 0
    /\ attempt = 0
    /\ outcome.branch = "failed"

\* C38: a task left behind by an earlier attempt that ends during a later one
\* changes nothing the orchestrator keeps: not the result vector, not the
\* pending set, not a counter; every recorded result is the one its own
\* future of the current attempt resolved with, and a returned list holds
\* exactly the values of the futures of the attempt that returned it.
C38_StaleOutcomesIgnored ==
    /\ [][stale'.futs # stale.futs /\ pc' = pc /\ pc # "aggregate" =>
            /\ tpu_results' = tpu_results
            /\ pending_futures' = pending_futures
            /\ num_preemptions' = num_preemptions
            /\ num_failures' = num_failures
            /\ outcome' = outcome]_vars
    /\ [](\A i \in 1..Len(tpu_results) :
            tpu_results[i].kind \notin {"None", "TpuCancelled"} =>
               (tpu_results[i].kind = fut[i].kind
                /\ tpu_results[i].result = fut[i].result))
    /\ [](outcome.kind = "returned" =>
            /\ Len(outcome.value) = Len(futures)
            /\ \A i \in 1..Len(futures) :
                 fut[i].kind = "TpuSuccess" /\ outcome.value[i] = fut[i].result)

\* The second attempt returned its results although a task of the first
\* ended while the second was waiting.
C38_Witness ==
    /\ pc = "done"
    /\ outcome.kind = "returned"
    /\ attempt = 2
    /\ stale.duringWait

\* C39: every slice actor that was created is a member of the pool or has been
\* killed, and when run_on_pod_ray has returned or raised every one of them
\* has been killed.
C39_NoWorkerLeaks ==
    /\ \A s \in ActorIds :
          sliceSt[s] # "unborn" =>
             (s \in PoolActors(actor_pool) \/ sliceSt[s] = "killed")
    /\ pc = "done" => \A s \in ActorIds : sliceSt[s] \in {"unborn", "killed"}

\* The attempt stopped waiting on the health poll alone: no future of it
\* resolved with an error.
StoppedByHealthPoll ==
    /\ had_a_failure
    /\ \A f \in 1..Len(fut) : fut[f].kind \in {"None", "TpuSuccess"}

\* C40: an attempt that stopped on the health poll alone records Cancelled
\* for every pending future and changes no counter; with futures pending it
\* goes back to the loop, with none pending its results are what
\* run_on_pod_ray returns.
C40_HealthStopNotCounted ==
    /\ []((pc = "aggregate" /\ StoppedByHealthPoll) =>
            \A f \in pending_futures : tpu_results[f] = TpuCancelled)
    /\ [][(pc = "aggregate" /\ StoppedByHealthPoll) =>
            /\ num_preemptions' = num_preemptions
            /\ num_failures' = num_failures
            /\ pending_futures # {} => pc' = "loop"
            /\ pending_futures = {} =>
                  exit' = [kind |-> "return", value |-> OutResults(tpu_results),
                           exc |-> "None"]]_vars
    /\ []((pc = "done" /\ StoppedByHealthPoll /\ pending_futures = {}
            /\ exit.kind = "return") =>
            outcome = Returned(exit.value))

====
